---------------------------- MODULE Spec2Model ----------------------------
(***************************************************************************)
(* Position & risk ledger of CoinBot (src/main.py): the webhook that opens *)
(* and closes leveraged positions, the background loop that applies        *)
(* stop-loss, take-profit and the account kill switch, the dashboard's     *)
(* kill-switch bookkeeping and the manual kill-switch reset; the locks the  *)
(* threads take; and, from src/backup.py, the legacy webhook and the locks  *)
(* of the live-trading monitor.                                            *)
(*                                                                         *)
(* Units.  The program computes in floating point; the model computes on   *)
(* fixed grids and rounds to the nearest grid point:                       *)
(*   money   micro-dollars        (1000.00 $ = 1000 * MoneyScale)          *)
(*   volume  micro-units          (round(volume, 6) of the program)        *)
(*   price   tenths of a dollar   (97.5 $ = 975)                           *)
(*   percent tenths of a percent  (2.5 % = 25)                             *)
(*   time    seconds; a calendar day is a day number                       *)
(* TLC's integers are 32 bits wide, so every product is taken through      *)
(* RoundMulDiv, which never forms a number larger than the result.         *)
(***************************************************************************)
EXTENDS Integers, Sequences, FiniteSets, TLC

(***************************************************************************)
(* Program constants                                                       *)
(***************************************************************************)
KILL_SWITCH_DELAY == 300
MAX_STALE_PRICE == 600
MAX_POSITIONS == 5
\* grid points per dollar, per unit of price and per percent
MoneyScale == 1000000
PriceScale == 10
PctScale == 1000
STARTING_BALANCE == 1000 * MoneyScale
\* margin_pct = 0.05, as the fraction MarginPctNum / MarginPctDen
MarginPctNum == 5
MarginPctDen == 100

\* the accounts of BOTS the model runs
Bots == {"1.0", "2.0"}
\* the order of "for bot_id in BOTS"
BotOrder == <<"1.0", "2.0">>
\* keys of kraken_pairs the model trades
Symbols == {"BTCUSDT", "ETHUSDT"}
Actions == {"buy", "sell", "short", "cover"}

DefaultSettings ==
    [leverage |-> 5, stop_loss_pct |-> 25, take_profit_pct |-> 30,
     kill_switch_pct |-> 50]

(***************************************************************************)
(* Bounds of the model                                                     *)
(***************************************************************************)
\* server threads that handle webhook requests at the same time
NumThreads == 2
\* local midnights that pass
MaxDay == 1

Threads == 1..NumThreads
\* quotes the price feed may deliver, in tenths of a dollar
PriceSet == {974, 1000, 1200}
\* the last trade of every symbol when the model starts
StartPrice == 1000
\* seconds that may pass between two ticks of the risk loop
TickGaps == {299, 300}
\* kill_switch_pct values of the settings files
KillPctSet == {1, 50}

None == <<>>

Some(x) == <<x>>

Val(o) == o[1]

(***************************************************************************)
(* Arithmetic                                                              *)
(***************************************************************************)
\* a * b / c rounded to the nearest integer (half up), for a >= 0, c > 0
RoundMulDiv(a, b, c) ==
    (a \div c) * b + (2 * (a % c) * b + c) \div (2 * c)

\* round(x, 2) of a money amount
Round2(x) == (x \div 10^4 + (IF 2 * (x % 10^4) >= 10^4 THEN 1 ELSE 0)) * 10^4

RECURSIVE SumSeq(_)
SumSeq(s) == IF s = <<>> THEN 0 ELSE Head(s) + SumSeq(Tail(s))

Map(F(_), s) == [i \in DOMAIN s |-> F(s[i])]

(***************************************************************************)
(* Accounts on disk                                                        *)
(***************************************************************************)
\* what load_account returns when the data file does not exist
DefaultAccount ==
    [balance |-> STARTING_BALANCE, positions |-> <<>>, trade_log |-> <<>>]

\* account["positions"].get(symbol, [])
PositionsOf(account, symbol) ==
    IF symbol \in DOMAIN account.positions THEN account.positions[symbol]
    ELSE <<>>

\* account["positions"][symbol] = plist (the key is created when missing)
SetPositions(account, symbol, plist) ==
    [account EXCEPT !.positions =
        [s \in (DOMAIN account.positions) \cup {symbol} |->
            IF s = symbol THEN plist ELSE account.positions[s]]]

(***************************************************************************)
(* webhook: opening a position                                             *)
(***************************************************************************)
\* a margin of twice the fraction
MarginUsedTwice(account) ==
    RoundMulDiv(account.balance, MarginPctNum + MarginPctNum, MarginPctDen)

\* margin_used = account["balance"] * margin_pct
MarginUsed(account) == RoundMulDiv(account.balance, MarginPctNum, MarginPctDen)

\* round((margin_used * leverage) / price, 6)
OpenVolume(margin_used, leverage, price) ==
    RoundMulDiv(margin_used * leverage, PriceScale, price)

\* price * (1 - pct/100) and price * (1 + pct/100)
PriceLess(price, pct) == RoundMulDiv(price, PctScale - pct, PctScale)

PriceMore(price, pct) == RoundMulDiv(price, PctScale + pct, PctScale)

NewPosition(action, price, margin_used, st) ==
    [type |-> IF action = "buy" THEN "long" ELSE "short",
     volume |-> OpenVolume(margin_used, st.leverage, price),
     entry_price |-> price,
     margin_used |-> margin_used,
     leverage |-> st.leverage,
     stop_loss_pct |-> st.stop_loss_pct,
     stop_loss_price |-> IF action = "buy" THEN PriceLess(price, st.stop_loss_pct)
                         ELSE PriceMore(price, st.stop_loss_pct),
     take_profit_pct |-> st.take_profit_pct,
     take_profit_price |-> IF action = "buy" THEN PriceMore(price, st.take_profit_pct)
                           ELSE PriceLess(price, st.take_profit_pct)]

\* an open branch without the position limit
OpenErrorNoLimit(account, symbol) ==
    IF MarginUsed(account) <= 0 THEN "insufficient_balance" ELSE "ok"

\* the error the open branch returns before it mutates anything, or "ok"
OpenError(account, symbol) ==
    IF MarginUsed(account) <= 0 THEN "insufficient_balance"
    ELSE IF Len(PositionsOf(account, symbol)) >= MAX_POSITIONS THEN "position_limit"
    ELSE "ok"

OpenRecord(action, symbol, price, pos, balance) ==
    [action |-> action, symbol |-> symbol, reason |-> "TradingView signal",
     price |-> price, amount |-> pos.volume, balance |-> Round2(balance),
     leverage |-> pos.leverage]

\* the account the open branch hands to save_account
OpenPosition(account, action, symbol, price, st) ==
    LET margin_used == MarginUsed(account)
        pos == NewPosition(action, price, margin_used, st)
        balance == account.balance - margin_used
        a1 == SetPositions(account, symbol, Append(PositionsOf(account, symbol), pos))
    IN [a1 EXCEPT !.balance = balance,
                  !.trade_log = Append(@, OpenRecord(action, symbol, price, pos, balance))]

(***************************************************************************)
(* webhook: closing the positions of one side of a symbol                  *)
(***************************************************************************)
ClosedType(action) == IF action = "sell" THEN "long" ELSE "short"

\* every position of the symbol, whatever its side
MatchingAnySide(account, action, symbol) == PositionsOf(account, symbol)

\* [p for p in positions if p["type"] matches the action]
Matching(account, action, symbol) ==
    SelectSeq(PositionsOf(account, symbol), LAMBDA p : p.type = ClosedType(action))

\* (exit - entry) * volume for a long, (entry - exit) * volume for a short
PositionProfit(type, entry, exit, volume) ==
    IF type = "long" THEN RoundMulDiv(volume, exit - entry, PriceScale)
    ELSE RoundMulDiv(volume, entry - exit, PriceScale)

TotalVolume(plist) == SumSeq(Map(LAMBDA p : p.volume, plist))

\* a close that hands no margin back
TotalMarginNone(plist) == 0

TotalMargin(plist) == SumSeq(Map(LAMBDA p : p.margin_used, plist))

\* the profit of a close with every position's part multiplied by its leverage
CloseProfitLeveraged(action, price, plist) ==
    SumSeq(Map(LAMBDA p : p.leverage * PositionProfit(ClosedType(action), p.entry_price,
                                                      price, p.volume),
               plist))

\* (price - avg_entry) * total_volume with avg_entry = sum(entry * volume) /
\* total_volume, which is sum((price - entry) * volume); the sum is taken term
\* by term to stay within 32 bits.
CloseProfit(action, price, plist) ==
    SumSeq(Map(LAMBDA p : PositionProfit(ClosedType(action), p.entry_price, price, p.volume),
               plist))

CloseRecord(action, symbol, price, plist, profit, balance) ==
    [action |-> action, symbol |-> symbol, reason |-> "TradingView signal",
     price |-> price, amount |-> TotalVolume(plist), profit |-> profit,
     balance |-> balance]

\* the account the close branch hands to save_account
ClosePositions(account, action, symbol, price) ==
    LET plist == Matching(account, action, symbol)
        profit == CloseProfit(action, price, plist)
        balance == account.balance + TotalMargin(plist) + profit
        rest == SelectSeq(PositionsOf(account, symbol),
                          LAMBDA p : \A i \in DOMAIN plist : plist[i] # p)
        a1 == SetPositions(account, symbol, rest)
    IN [a1 EXCEPT !.balance = balance,
                  !.trade_log = Append(@, CloseRecord(action, symbol, price, plist,
                                                      profit, balance))]

\* a rejection only when the symbol holds no position of either side
CloseErrorAnySide(account, action, symbol) ==
    IF PositionsOf(account, symbol) = <<>> THEN "no_positions" ELSE "ok"

\* if not positions: "No {action} positions to close"
CloseError(account, action, symbol) ==
    IF Matching(account, action, symbol) = <<>> THEN "no_positions" ELSE "ok"

(***************************************************************************)
(* Price feed                                                              *)
(***************************************************************************)
\* prices.get(symbol, 0): 0 stands for a symbol latest_prices does not hold
PriceOf(prices, symbol) == prices[symbol]

NoPrices == [s \in Symbols |-> 0]

\* fetch_latest_prices(symbols): BTCUSDT is always asked for; the request for
\* a symbol delivers the exchange's last trade (ticker[s]) or fails (s in
\* failing).  The result is latest_prices afterwards, with got_one telling
\* whether any request succeeded.
FetchLatestPrices(prices, symbols, ticker, failing) ==
    LET asked == (symbols \cup {"BTCUSDT"}) \ failing
    IN [prices |-> [s \in Symbols |-> IF s \in asked THEN ticker[s] ELSE prices[s]],
        got_one |-> asked # {}]

(***************************************************************************)
(* Equity                                                                  *)
(***************************************************************************)
SymbolOrder == <<"BTCUSDT", "ETHUSDT">>

\* the keys of account["positions"], in the order the loops visit them
KeysInOrder(account) ==
    SelectSeq(SymbolOrder, LAMBDA s : s \in DOMAIN account.positions)

\* 'margin_used' of calculate_position_stats
StatMargin(p) ==
    IF p.margin_used = 0 /\ p.entry_price # 0 /\ p.volume # 0 /\ p.leverage # 0
    THEN RoundMulDiv(p.volume, p.entry_price, PriceScale * p.leverage)
    ELSE p.margin_used

\* 'pnl' of calculate_position_stats at current_price = prices.get(symbol, 0)
StatPnl(p, current_price) ==
    PositionProfit(p.type, p.entry_price, current_price, p.volume)

RECURSIVE SumOverSymbols(_, _, _)
SumOverSymbols(F(_, _), account, syms) ==
    IF syms = <<>> THEN 0
    ELSE SumSeq(Map(LAMBDA p : F(p, Head(syms)), account.positions[Head(syms)]))
         + SumOverSymbols(F, account, Tail(syms))

\* equity = available_cash + total_margin + total_pl
Equity(account, prices) ==
    account.balance
    + SumOverSymbols(LAMBDA p, s : StatMargin(p), account, KeysInOrder(account))
    + SumOverSymbols(LAMBDA p, s : StatPnl(p, PriceOf(prices, s)), account,
                     KeysInOrder(account))

\* a * b / c rounded up, for a >= 0, b >= 0, c > 0
CeilMulDiv(a, b, c) == (a \div c) * b + ((a % c) * b + c - 1) \div c

\* starting_equity = kill_switch_equity_open[bot_id]['open'] or equity
StartingEquity(open, equity) ==
    IF open = None \/ Val(open) = 0 THEN equity ELSE Val(open)

\* loss_pct >= kill_switch_pct, with
\* loss_pct = (starting_equity - equity) / starting_equity * 100 if
\* starting_equity > 0 else 0
LossBreached(starting_equity, equity, kill_switch_pct) ==
    IF starting_equity > 0
    THEN starting_equity - equity >= CeilMulDiv(starting_equity, kill_switch_pct, PctScale)
    ELSE 0 >= kill_switch_pct

(***************************************************************************)
(* Closing single positions: kill-switch liquidation and stop/target scan  *)
(***************************************************************************)
RiskRecord(symbol, p, exit_price, reason, profit, balance) ==
    [action |-> IF p.type = "long" THEN "sell" ELSE "cover", symbol |-> symbol,
     reason |-> reason, price |-> exit_price, amount |-> p.volume,
     profit |-> profit, balance |-> balance, leverage |-> p.leverage]

\* a close that credits the profit and keeps the margin
CloseOneKeepsMargin(account, symbol, p, exit_price, reason) ==
    LET profit == PositionProfit(p.type, p.entry_price, exit_price, p.volume)
        balance == account.balance + profit
    IN [account EXCEPT !.balance = balance,
                       !.trade_log = Append(@, RiskRecord(symbol, p, exit_price, reason,
                                                          profit, balance))]

\* account["balance"] += margin_used + profit; account["trade_log"].append(...)
CloseOne(account, symbol, p, exit_price, reason) ==
    LET profit == PositionProfit(p.type, p.entry_price, exit_price, p.volume)
        balance == account.balance + p.margin_used + profit
    IN [account EXCEPT !.balance = balance,
                       !.trade_log = Append(@, RiskRecord(symbol, p, exit_price, reason,
                                                          profit, balance))]

RECURSIVE LiquidateList(_, _, _, _)
LiquidateList(account, symbol, plist, current_price) ==
    IF plist = <<>> THEN account
    ELSE LiquidateList(CloseOne(account, symbol, Head(plist), current_price,
                                "Kill Switch Triggered"),
                       symbol, Tail(plist), current_price)

RECURSIVE LiquidateSymbols(_, _, _)
LiquidateSymbols(account, syms, prices) ==
    IF syms = <<>> THEN account
    ELSE LET s == Head(syms)
             current_price == PriceOf(prices, s)
         IN IF current_price <= 0
            THEN LiquidateSymbols(account, Tail(syms), prices)
            ELSE LiquidateSymbols(
                    SetPositions(LiquidateList(account, s, account.positions[s],
                                               current_price), s, <<>>),
                    Tail(syms), prices)

\* the account after liquidate_all_positions, and its return value 'modified'
LiquidateAll(account, prices) ==
    [account |-> LiquidateSymbols(account, KeysInOrder(account), prices),
     modified |-> \E s \in DOMAIN account.positions :
                    PriceOf(prices, s) > 0 /\ account.positions[s] # <<>>]

\* stop_loss_trigger and take_profit_trigger of one position
StopLossTrigger(p, current_price) ==
    IF p.type = "long" THEN current_price <= p.stop_loss_price
    ELSE current_price >= p.stop_loss_price

TakeProfitTrigger(p, current_price) ==
    IF p.type = "long" THEN current_price >= p.take_profit_price
    ELSE current_price <= p.take_profit_price

\* a triggered position closed at the price of the moment
ExitAtMarket(p, current_price) == current_price

\* the price a triggered position is closed at
ExitPrice(p, current_price) ==
    IF StopLossTrigger(p, current_price) THEN p.stop_loss_price
    ELSE p.take_profit_price

ExitReason(p, current_price) ==
    IF StopLossTrigger(p, current_price) THEN "Stop Loss" ELSE "Take Profit"

Triggered(p, current_price) ==
    StopLossTrigger(p, current_price) \/ TakeProfitTrigger(p, current_price)

RECURSIVE ScanList(_, _, _, _)
ScanList(account, symbol, plist, current_price) ==
    IF plist = <<>> THEN account
    ELSE LET p == Head(plist)
         IN ScanList(IF Triggered(p, current_price)
                     THEN CloseOne(account, symbol, p, ExitPrice(p, current_price),
                                   ExitReason(p, current_price))
                     ELSE account,
                     symbol, Tail(plist), current_price)

\* a loop that keeps no position of a symbol it has closed one of
SurvivorsNone(plist, current_price) ==
    IF \E i \in DOMAIN plist : Triggered(plist[i], current_price) THEN <<>> ELSE plist

\* a scan that moves the stop-loss price of the positions it keeps to the
\* current price
SurvivorsTrailing(plist, current_price) ==
    LET kept == SelectSeq(plist, LAMBDA p : ~Triggered(p, current_price))
    IN [i \in 1..Len(kept) |->
           [kept[i] EXCEPT !.stop_loss_price =
               IF kept[i].type = "long"
               THEN PriceLess(current_price, kept[i].stop_loss_pct)
               ELSE PriceMore(current_price, kept[i].stop_loss_pct)]]

\* new_positions: the positions the loop appends in its else branch
Survivors(plist, current_price) ==
    SelectSeq(plist, LAMBDA p : ~Triggered(p, current_price))

\* a scan that takes every price as usable
ScanSkipsNever(current_price) == FALSE

\* if not current_price or current_price <= 0: continue
ScanSkips(current_price) == current_price <= 0

RECURSIVE ScanSymbols(_, _, _)
ScanSymbols(account, syms, prices) ==
    IF syms = <<>> THEN account
    ELSE LET s == Head(syms)
             current_price == PriceOf(prices, s)
         IN IF ScanSkips(current_price)
            THEN ScanSymbols(account, Tail(syms), prices)
            ELSE ScanSymbols(
                    SetPositions(ScanList(account, s, account.positions[s], current_price),
                                 s, Survivors(account.positions[s], current_price)),
                    Tail(syms), prices)

\* the account after the stop-loss / take-profit loop, and whether it set 'modified'
ScanAll(account, prices) ==
    [account |-> ScanSymbols(account, KeysInOrder(account), prices),
     modified |-> \E s \in DOMAIN account.positions :
                    /\ ~ScanSkips(PriceOf(prices, s))
                    /\ \E i \in DOMAIN account.positions[s] :
                          Triggered(account.positions[s][i], PriceOf(prices, s))]

(***************************************************************************)
(* Locks.  kill_switch_lock and file_lock of src/main.py and               *)
(* live_trading_lock of src/backup.py are threading.Lock() objects: one of *)
(* each for every bot, and not reentrant.  A lock region is the sequence   *)
(* of acquire and release operations a thread runs from holding no lock to *)
(* holding no lock again; bot is the account the code is working on.       *)
(***************************************************************************)
LockThreads == {"web1", "web2", "loop"}

\* a thread outside every lock region
NoLocks == [ops |-> <<>>, held |-> <<>>]

Acquire(lock, bot) == [op |-> "acquire", lock |-> lock, bot |-> bot]

Release(lock, bot) == [op |-> "release", lock |-> lock, bot |-> bot]

\* with lock: body
With(lock, bot, body) == <<Acquire(lock, bot)>> \o body \o <<Release(lock, bot)>>

\* a load_account that asks for kill_switch_lock while it holds file_lock
LoadAccountOpsInverted(b, exists) ==
    IF exists THEN With("file_lock", b, With("kill_switch_lock", b, <<>>)) ELSE <<>>

\* load_account: file_lock around the read of a data_file that exists
LoadAccountOps(b, exists) == IF exists THEN With("file_lock", b, <<>>) ELSE <<>>

\* save_account: file_lock around open and json.dump
SaveAccountOps(b) == With("file_lock", b, <<>>)

\* load_kill_switch_state: file_lock around the read of a file that exists
LoadKillSwitchStateOps(b, exists) == IF exists THEN With("file_lock", b, <<>>) ELSE <<>>

\* save_kill_switch_state
SaveKillSwitchStateOps(b) == With("file_lock", b, <<>>)

\* load_bot_settings
LoadBotSettingsOps(b, exists) == IF exists THEN With("file_lock", b, <<>>) ELSE <<>>

\* save_bot_settings
SaveBotSettingsOps(b) == With("file_lock", b, <<>>)

\* webhook(): the kill-switch check of lines 880-882, load_bot_settings
\* (892), load_account (914) and save_account (963, 1013)
WebhookLocks(b) ==
    {With("kill_switch_lock", b, LoadKillSwitchStateOps(b, e)) : e \in BOOLEAN}
    \cup {LoadBotSettingsOps(b, TRUE), LoadAccountOps(b, TRUE), SaveAccountOps(b)}

\* dashboard(): load_account (453, 460) and the kill-switch block from line
\* 468 with its load_kill_switch_state (473)
DashboardLocks(b) ==
    {LoadAccountOps(b, TRUE)}
    \cup {With("kill_switch_lock", b, LoadKillSwitchStateOps(b, e)) : e \in BOOLEAN}

\* reset_kill_switch(): lines 855-865, with and without the save
ResetLocks(b) ==
    {With("kill_switch_lock", b, LoadKillSwitchStateOps(b, e) \o tail) :
        e \in BOOLEAN, tail \in {<<>>, SaveKillSwitchStateOps(b)}}

\* settings(): load_bot_settings (781) and save_bot_settings (799)
SettingsLocks(b) == {LoadBotSettingsOps(b, TRUE), SaveBotSettingsOps(b)}

\* the risk loop: reset_kill_switch_daily (180-188), load_account (1031,
\* 1042), the check of lines 1037-1040, load_bot_settings (1043), the
\* kill-switch block (1056-1078) with liquidate_all_positions' save_account
\* (440) and save_kill_switch_state (1075), and save_account (1149)
RiskLocks(b) ==
    {With("kill_switch_lock", b, body) :
        body \in {<<>>, SaveKillSwitchStateOps(b),
                  SaveAccountOps(b) \o SaveKillSwitchStateOps(b)}
                 \cup {LoadKillSwitchStateOps(b, TRUE) \o tail :
                          tail \in {<<>>, SaveKillSwitchStateOps(b)}}}
    \cup {LoadAccountOps(b, TRUE), LoadBotSettingsOps(b, TRUE), SaveAccountOps(b)}

\* src/backup.py, load_live_trading_state: live_trading_lock around the read
\* of a state file that exists (450-477)
LoadLiveTradingStateOps(exists) ==
    IF exists THEN With("live_trading_lock", "live", <<>>) ELSE <<>>

\* src/backup.py, save_live_trading_state (479-488)
SaveLiveTradingStateOps == With("live_trading_lock", "live", <<>>)

\* src/backup.py, liquidate_live_positions (960-1005)
LiquidateLiveOps(exists) ==
    With("live_trading_lock", "live", LoadLiveTradingStateOps(exists))

\* src/backup.py, one iteration of monitor_live_balance (1009-1053): the
\* whole body runs under live_trading_lock; after the load it leaves at once
\* (kill switch active), or saves the new starting balance (1029), saves and
\* liquidates on a fire (1047-1049) and saves at the end (1053)
MonitorLocks ==
    UNION {{With("live_trading_lock", "live", LoadLiveTradingStateOps(e) \o tail) :
               tail \in {<<>>, SaveLiveTradingStateOps,
                         SaveLiveTradingStateOps \o SaveLiveTradingStateOps,
                         SaveLiveTradingStateOps \o LiquidateLiveOps(e)
                            \o SaveLiveTradingStateOps}} :
           e \in BOOLEAN}

\* src/backup.py, webhook(): the kill-switch check (2084-2086) and the check
\* of the live kill switch (2088-2090)
LiveWebhookLocks(b) ==
    {With("kill_switch_lock", b, LoadKillSwitchStateOps(b, e)) : e \in BOOLEAN}
    \cup {With("live_trading_lock", "live", <<>>)}

(***************************************************************************)
(* State                                                                   *)
(***************************************************************************)
VARIABLES
    accountFile,        \* data_file of each bot, as load_account reads it
    ksFile,             \* kill_switch_file of each bot
    settings,           \* settings file of each bot
    latest_prices,      \* the global latest_prices
    last_price_update_dt,
    kill_switch_equity_open,
    kill_switch_breach_start,
    quote,              \* the exchange: last trade price of each symbol
    down,               \* the exchange: symbols whose ticker request fails
    clock,              \* datetime.now(), seconds
    today,              \* the local calendar day
    uuidCtr,            \* uuid4() values handed out so far
    wh,                 \* the webhook request each server thread is handling
    risk,               \* the risk loop's position and locals
    acked,              \* history: trade records of the operations that succeeded
    ver,                \* history: number of writes of each data_file
    dayFirst,           \* history: equity at the first risk evaluation of the day
    trueSince,          \* history: start of the current run of drawdown against dayFirst
    obsSince,           \* history: start of the current run of breaches the loop observed
    budget,             \* how many more requests, ticks, ... the model explores
    lk                  \* the lock region each thread is in and the locks it holds

\* the variables of the ledger and of the kill switch
vars0 == <<accountFile, ksFile, settings, latest_prices, last_price_update_dt,
           kill_switch_equity_open, kill_switch_breach_start, quote, down, clock, today,
           uuidCtr,
           wh, risk, acked, ver, dayFirst, trueSince, obsSince, budget>>

vars == <<vars0, lk>>

\* what load_kill_switch_state returns ('reset_uuid' 0: a uuid no request carries)
NoKsFile == [exists |-> FALSE, active |-> FALSE, reset_uuid |-> 0]

IdleThread ==
    [pc |-> "idle", bot |-> "1.0", action |-> "buy", symbol |-> "BTCUSDT",
     ks |-> FALSE, st |-> DefaultSettings, price |-> 0, account |-> DefaultAccount,
     before |-> DefaultAccount, ver |-> 0, resp |-> "none"]

SleepingRisk ==
    [pc |-> "sleep", now |-> 0, day |-> 0, idx |-> 1, account |-> DefaultAccount,
     prices |-> NoPrices, equity |-> 0, modified |-> FALSE, nacked |-> 0]

\* kill_switch_equity_open.get(bot_id, {}): date -1 stands for a missing key
NoEquityOpen == [date |-> -1, open |-> None]

NoDayFirst == [day |-> -1, equity |-> 0]

\* The state of a first start: no data files, no kill-switch files, the
\* module-level dictionaries empty.  budget0 bounds the run and settingsSet
\* holds the contents the settings files may have, the same for every bot.
InitSettings(budget0, settingsSet) ==
    /\ accountFile = [b \in Bots |-> DefaultAccount]
    /\ ksFile = [b \in Bots |-> NoKsFile]
    /\ \E st \in settingsSet : settings = [b \in Bots |-> st]
    /\ latest_prices = NoPrices
    /\ last_price_update_dt = 0
    /\ kill_switch_equity_open = [b \in Bots |-> NoEquityOpen]
    /\ kill_switch_breach_start = [b \in Bots |-> None]
    /\ quote = [s \in Symbols |-> StartPrice]
    /\ down = {}
    /\ clock = 0
    /\ today = 0
    /\ uuidCtr = 0
    /\ wh = [t \in Threads |-> IdleThread]
    /\ risk = SleepingRisk
    /\ acked = [b \in Bots |-> <<>>]
    /\ ver = [b \in Bots |-> 0]
    /\ dayFirst = [b \in Bots |-> NoDayFirst]
    /\ trueSince = [b \in Bots |-> None]
    /\ obsSince = [b \in Bots |-> None]
    /\ budget = budget0
    /\ lk = [t \in LockThreads |-> NoLocks]

\* a first start with the default settings but for kill_switch_pct, which is
\* one of killPcts
InitWith(budget0, killPcts) ==
    InitSettings(budget0, {[DefaultSettings EXCEPT !.kill_switch_pct = k] : k \in killPcts})

(***************************************************************************)
(* data files                                                              *)
(***************************************************************************)
\* a data_file that open(data_file, "w") emptied and json.dump did not fill
Truncated == [truncated |-> TRUE]

\* load_account: the stored account, or the default account of lines
\* 256-262 when json.load raises
LoadAccount(file) ==
    IF "truncated" \in DOMAIN file THEN DefaultAccount ELSE file

\* a load or save that does not wait for file_lock
FileLockIgnored(threads) == TRUE

\* "with file_lock" of load_account and save_account: no thread of threads
\* is between the open and the end of json.dump
FileLockFree(threads) == \A t \in DOMAIN threads : threads[t].pc # "write"

(***************************************************************************)
(* webhook                                                                 *)
(***************************************************************************)
\* load_kill_switch_state(bot_id)["active"]
KillSwitchActive(b) == ksFile[b].active

\* a webhook without the kill-switch check
NeverHalted(active) == FALSE

\* Lines 880-882: the webhook refuses the signal with "Trading halted ..."
WebhookHalted(active) == active

\* Lines 1037-1040: the risk loop leaves the bot out of the pass
RiskSkips(active) == active

\* Lines 872-912: a request arrives; the kill-switch check, the validation of
\* the signal, load_bot_settings and the price lookup (with one fetch when no
\* price is known).
WebhookCheck(t, b, action, symbol) ==
    /\ wh[t].pc \in {"idle", "done"}
    /\ budget.req > 0
    /\ budget' = [budget EXCEPT !.req = @ - 1]
    /\ LET req0 == [IdleThread EXCEPT !.bot = b, !.action = action, !.symbol = symbol,
                                     !.ks = KillSwitchActive(b)]
           req == [req0 EXCEPT !.st = settings[b]]
       IN IF WebhookHalted(req0.ks)
          THEN /\ wh' = [wh EXCEPT ![t] = [req0 EXCEPT !.pc = "done", !.resp = "halted"]]
               /\ UNCHANGED <<latest_prices, last_price_update_dt>>
          ELSE IF PriceOf(latest_prices, symbol) > 0
          THEN /\ wh' = [wh EXCEPT ![t] = [req EXCEPT !.pc = "load",
                                            !.price = PriceOf(latest_prices, symbol)]]
               /\ UNCHANGED <<latest_prices, last_price_update_dt>>
          ELSE LET f == FetchLatestPrices(latest_prices, {symbol}, quote, down)
               IN
                /\ latest_prices' = f.prices
                /\ last_price_update_dt' = IF f.got_one THEN clock
                                           ELSE last_price_update_dt
                /\ wh' = [wh EXCEPT ![t] =
                            IF PriceOf(f.prices, symbol) > 0
                            THEN [req EXCEPT !.pc = "load",
                                             !.price = PriceOf(f.prices, symbol)]
                            ELSE [req EXCEPT !.pc = "done", !.resp = "no_price"]]
    /\ UNCHANGED <<accountFile, ksFile, settings, kill_switch_equity_open,
                   kill_switch_breach_start, quote, down, clock, today, uuidCtr, risk, acked, ver,
                   dayFirst, trueSince, obsSince>>
    /\ UNCHANGED lk

\* the error of the branch the action selects, or "ok"
SignalError(account, action, symbol) ==
    IF action \in {"buy", "short"} THEN OpenError(account, symbol)
    ELSE CloseError(account, action, symbol)

\* the account the branch the action selects hands to save_account
SignalEffect(account, action, symbol, price, st) ==
    IF action \in {"buy", "short"} THEN OpenPosition(account, action, symbol, price, st)
    ELSE ClosePositions(account, action, symbol, price)

\* Lines 914-1012: load_account and the branch's work on the loaded copy, up
\* to the call of save_account; a rejected signal returns here.
WebhookLoad(t) ==
    /\ wh[t].pc = "load"
    /\ FileLockFree(wh)
    /\ LET w == wh[t]
           account == LoadAccount(accountFile[w.bot])
           err == SignalError(account, w.action, w.symbol)
       IN wh' = [wh EXCEPT ![t] =
                    IF err # "ok" THEN [w EXCEPT !.pc = "done", !.resp = err]
                    ELSE [w EXCEPT !.pc = "save", !.ver = ver[w.bot],
                                   !.account = SignalEffect(account, w.action, w.symbol,
                                                            w.price, w.st)]]
    /\ UNCHANGED <<accountFile, ksFile, settings, latest_prices, last_price_update_dt,
                   kill_switch_equity_open, kill_switch_breach_start, quote, down, clock, today,
                   uuidCtr, risk, acked, ver, dayFirst, trueSince, obsSince, budget>>
    /\ UNCHANGED lk

\* Lines 963-973 and 1013-1015: save_account and the success response; the
\* save is one step, as file_lock makes it for every other load and save.
WebhookSave(t) ==
    /\ wh[t].pc = "save"
    /\ FileLockFree(wh)
    /\ LET w == wh[t]
       IN /\ accountFile' = [accountFile EXCEPT ![w.bot] = w.account]
          /\ ver' = [ver EXCEPT ![w.bot] = @ + 1]
          /\ acked' = [acked EXCEPT ![w.bot] =
                          Append(@, w.account.trade_log[Len(w.account.trade_log)])]
          /\ wh' = [wh EXCEPT ![t] = [w EXCEPT !.pc = "done", !.resp = "success",
                                               !.account = DefaultAccount]]
    /\ UNCHANGED <<ksFile, settings, latest_prices, last_price_update_dt,
                   kill_switch_equity_open, kill_switch_breach_start, quote, down, clock, today,
                   uuidCtr, risk, dayFirst, trueSince, obsSince, budget>>
    /\ UNCHANGED lk

(***************************************************************************)
(* The risk loop: check_and_trigger_stop_losses_and_kill_switch            *)
(***************************************************************************)
\* a state saved with the uuid of the last state saved
FreshUuidKept(i) == uuidCtr

\* the uuid4() drawn for the bot at position i of BotOrder in one step
FreshUuid(i) == uuidCtr + i

BotIndex(b) == CHOOSE i \in DOMAIN BotOrder : BotOrder[i] = b

\* Line 1026: now = datetime.now(...), after the sleep that ended the last pass.
TickStart(gap) ==
    /\ risk.pc = "sleep"
    /\ budget.ticks > 0
    /\ budget' = [budget EXCEPT !.ticks = @ - 1]
    /\ clock' = clock + gap
    /\ risk' = [SleepingRisk EXCEPT !.pc = "reset", !.now = clock + gap, !.day = today]
    /\ UNCHANGED <<quote, down, accountFile, ksFile, settings, latest_prices, last_price_update_dt,
                   kill_switch_equity_open, kill_switch_breach_start, today, uuidCtr,
                   wh, acked, ver, dayFirst, trueSince, obsSince>>
    /\ UNCHANGED lk

\* whether reset_kill_switch_daily starts a new day for the bot
NewDay(b) == kill_switch_equity_open[b].date # today

\* a daily reset that clears an active kill switch on any day
DailyClearsAnyDay(b) == ksFile[b].active

\* a daily reset that clears only a kill switch of an earlier day
DailyClearsLaterDay(b) ==
    kill_switch_equity_open[b].date \notin {-1, today} /\ ksFile[b].active

\* Lines 183-187: inside the new day's branch, "if state['active']"
DailyClears(b) == NewDay(b) /\ ksFile[b].active

\* reset_kill_switch_daily()
DailyReset ==
    /\ risk.pc = "reset"
    /\ risk' = [risk EXCEPT !.pc = "fetch"]
    /\ kill_switch_equity_open' =
          [b \in Bots |-> IF NewDay(b) THEN [date |-> today, open |-> None]
                          ELSE kill_switch_equity_open[b]]
    /\ kill_switch_breach_start' =
          [b \in Bots |-> IF NewDay(b) THEN None ELSE kill_switch_breach_start[b]]
    /\ ksFile' = [b \in Bots |->
                    IF DailyClears(b)
                    THEN [exists |-> TRUE, active |-> FALSE,
                          reset_uuid |-> FreshUuid(BotIndex(b))]
                    ELSE ksFile[b]]
    /\ uuidCtr' = IF \E b \in Bots : DailyClears(b)
                  THEN uuidCtr + Len(BotOrder) ELSE uuidCtr
    /\ UNCHANGED <<accountFile, settings, latest_prices, last_price_update_dt, quote, down, clock,
                   today, wh, acked, ver, dayFirst, trueSince, obsSince, budget>>
    /\ UNCHANGED lk

\* all_symbols of lines 1029-1032
AllSymbols == UNION {DOMAIN LoadAccount(accountFile[b]).positions : b \in Bots}

\* Lines 1029-1034: if all_symbols: fetch_latest_prices(list(all_symbols))
RiskFetch ==
    /\ risk.pc = "fetch"
    /\ risk' = [risk EXCEPT !.pc = "load", !.idx = 1]
    /\ IF AllSymbols = {}
       THEN UNCHANGED <<latest_prices, last_price_update_dt>>
       ELSE LET f == FetchLatestPrices(latest_prices, AllSymbols, quote, down)
            IN
              /\ latest_prices' = f.prices
              /\ last_price_update_dt' = IF f.got_one THEN clock
                                         ELSE last_price_update_dt
    /\ UNCHANGED <<accountFile, ksFile, settings, kill_switch_equity_open,
                   kill_switch_breach_start, quote, down, clock, today, uuidCtr, wh, acked, ver,
                   dayFirst, trueSince, obsSince, budget>>
    /\ UNCHANGED lk

\* the loop variable moves to the next bot, or the pass ends in time.sleep(5)
NextBot(r) ==
    IF r.idx < Len(BotOrder) THEN [SleepingRisk EXCEPT !.pc = "load", !.now = r.now,
                                                      !.day = r.day, !.idx = r.idx + 1]
    ELSE SleepingRisk

\* Lines 1037-1053: the pass skips a bot whose kill switch is active; else it
\* loads the account, copies latest_prices and computes the equity.
RiskLoad ==
    /\ risk.pc = "load"
    /\ FileLockFree(wh)
    /\ LET b == BotOrder[risk.idx]
           account == LoadAccount(accountFile[b])
       IN risk' = IF RiskSkips(KillSwitchActive(b)) THEN NextBot(risk)
                  ELSE [risk EXCEPT !.pc = "kill",
                                    !.account = account,
                                    !.prices = latest_prices,
                                    !.equity = Equity(account, latest_prices),
                                    !.modified = FALSE,
                                    !.nacked = Len(account.trade_log)]
    /\ UNCHANGED <<accountFile, ksFile, settings, latest_prices, last_price_update_dt,
                   kill_switch_equity_open, kill_switch_breach_start, quote, down, clock, today,
                   uuidCtr, wh, acked, ver, dayFirst, trueSince, obsSince, budget>>
    /\ UNCHANGED lk

\* a pass that takes every price as fresh
PricesStaleNever(now, last_update) == FALSE

\* (now - last_price_update_dt).total_seconds() > MAX_STALE_PRICE
PricesStale(now, last_update) == now - last_update > MAX_STALE_PRICE

\* a debounce that lets the second breaching pass fire
DebounceSkipped(now, breach_start) == now - breach_start >= 0

\* (now - kill_switch_breach_start[bot_id]).total_seconds() >= KILL_SWITCH_DELAY
DebounceElapsed(now, breach_start) == now - breach_start >= KILL_SWITCH_DELAY

\* Lines 1058-1059: the day's opening equity as the pass leaves it
EquityOpenAfter(equity_open, day, equity) ==
    IF equity_open.date # day THEN [date |-> day, open |-> Some(equity)]
    ELSE equity_open

\* Lines 1063-1078: what the pass does with the breach timer:
\* "stale", "start", "wait", "fire" or "clear"
KillDecision(stale, breached, breach_start, now) ==
    IF stale THEN "stale"
    ELSE IF breached
         THEN IF breach_start = None THEN "start"
              ELSE IF DebounceElapsed(now, Val(breach_start)) THEN "fire"
              ELSE "wait"
    ELSE "clear"

\* a stale pass that leaves the breach timer running
BreachStartStaleKept(decision, breach_start, now) ==
    CASE decision = "start" -> Some(now)
      [] decision = "clear" -> None
      [] OTHER -> breach_start

\* kill_switch_breach_start[bot_id] after the decision
BreachStartAfter(decision, breach_start, now) ==
    CASE decision = "stale" -> None
      [] decision = "start" -> Some(now)
      [] decision = "clear" -> None
      [] OTHER -> breach_start

\* a history timer: the start of the current run of breaching evaluations
RunSince(since, breaching, now) ==
    IF breaching THEN (IF since = None THEN Some(now) ELSE since) ELSE None

\* Lines 1056-1078: the kill-switch block of one bot, under kill_switch_lock.
RiskKill ==
    /\ risk.pc = "kill"
    /\ LET b == BotOrder[risk.idx]
           equity == risk.equity
           pct == settings[b].kill_switch_pct
           eo == EquityOpenAfter(kill_switch_equity_open[b], risk.day, equity)
           starting_equity == StartingEquity(eo.open, equity)
           stale == PricesStale(risk.now, last_price_update_dt)
           breached == LossBreached(starting_equity, equity, pct)
           decision == KillDecision(stale, breached, kill_switch_breach_start[b],
                                    risk.now)
           liq == LiquidateAll(risk.account, risk.prices)
           df == IF dayFirst[b].day # risk.day
                 THEN [day |-> risk.day, equity |-> equity] ELSE dayFirst[b]
       IN /\ kill_switch_equity_open' = [kill_switch_equity_open EXCEPT ![b] = eo]
          /\ kill_switch_breach_start' =
                [kill_switch_breach_start EXCEPT ![b] =
                    BreachStartAfter(decision, @, risk.now)]
          /\ dayFirst' = [dayFirst EXCEPT ![b] = df]
          /\ trueSince' = [trueSince EXCEPT ![b] =
                RunSince(@, ~stale /\ LossBreached(df.equity, equity, pct), risk.now)]
          /\ obsSince' = [obsSince EXCEPT ![b] =
                RunSince(@, ~stale /\ breached, risk.now)]
          /\ IF decision = "fire"
             THEN /\ ksFile' = [ksFile EXCEPT ![b] =
                        [exists |-> TRUE, active |-> TRUE, reset_uuid |-> FreshUuid(1)]]
                  /\ uuidCtr' = uuidCtr + 1
                  /\ risk' = [risk EXCEPT !.pc = "scan", !.account = liq.account,
                                          !.modified = TRUE,
                                          !.nacked = IF liq.modified
                                                     THEN Len(liq.account.trade_log)
                                                     ELSE @]
                  /\ IF liq.modified
                     THEN /\ FileLockFree(wh)
                          /\ accountFile' = [accountFile EXCEPT ![b] = liq.account]
                          /\ ver' = [ver EXCEPT ![b] = @ + 1]
                          /\ acked' = [acked EXCEPT ![b] =
                                @ \o SubSeq(liq.account.trade_log, risk.nacked + 1,
                                            Len(liq.account.trade_log))]
                     ELSE UNCHANGED <<accountFile, ver, acked>>
             ELSE /\ risk' = [risk EXCEPT !.pc = "scan"]
                  /\ UNCHANGED <<ksFile, uuidCtr, accountFile, ver, acked>>
    /\ UNCHANGED <<settings, latest_prices, last_price_update_dt, quote, down, clock, today, wh,
                   budget>>
    /\ UNCHANGED lk

\* Lines 1080-1149: the stop-loss / take-profit loop over the loaded account
\* at get_kraken_price(symbol), and save_account when anything was modified.
RiskScan ==
    /\ risk.pc = "scan"
    /\ LET b == BotOrder[risk.idx]
           scan == ScanAll(risk.account, latest_prices)
       IN /\ risk' = NextBot(risk)
          /\ IF risk.modified \/ scan.modified
             THEN /\ FileLockFree(wh)
                  /\ accountFile' = [accountFile EXCEPT ![b] = scan.account]
                  /\ ver' = [ver EXCEPT ![b] = @ + 1]
                  /\ acked' = [acked EXCEPT ![b] =
                        @ \o SubSeq(scan.account.trade_log, risk.nacked + 1,
                                    Len(scan.account.trade_log))]
             ELSE UNCHANGED <<accountFile, ver, acked>>
    /\ UNCHANGED <<ksFile, settings, latest_prices, last_price_update_dt,
                   kill_switch_equity_open, kill_switch_breach_start, quote, down, clock, today,
                   uuidCtr, wh, dayFirst, trueSince, obsSince, budget>>
    /\ UNCHANGED lk

(***************************************************************************)
(* dashboard, manual reset, the calendar and the process                   *)
(***************************************************************************)
\* dashboard(): the price fetch and, per bot, lines 468-471
Dashboard ==
    /\ budget.dash > 0
    /\ FileLockFree(wh)
    /\ budget' = [budget EXCEPT !.dash = @ - 1]
    /\ LET f == FetchLatestPrices(latest_prices, AllSymbols, quote, down)
       IN
          /\ latest_prices' = f.prices
          /\ last_price_update_dt' = IF f.got_one THEN clock ELSE last_price_update_dt
          /\ kill_switch_equity_open' =
                [b \in Bots |-> EquityOpenAfter(kill_switch_equity_open[b], today,
                                                Equity(LoadAccount(accountFile[b]),
                                                       f.prices))]
    /\ UNCHANGED <<accountFile, ksFile, settings, kill_switch_breach_start, quote, down, clock,
                   today, uuidCtr, wh, risk, acked, ver, dayFirst, trueSince, obsSince>>
    /\ UNCHANGED lk

\* a reset that takes any token
TokenMatchesAny(state, reset_uuid) == TRUE

\* Line 857: state['reset_uuid'] == reset_uuid, where a missing
\* kill_switch_file gives the state a uuid4() of its own
TokenMatches(state, reset_uuid) == state.exists /\ state.reset_uuid = reset_uuid

\* a reset that leaves the breach timer running
BreachStartKeptAtReset(breach_start) == breach_start

\* Line 861: kill_switch_breach_start[bot_id] = None
BreachStartAfterReset(breach_start) == None

\* reset_kill_switch(): lines 855-865
ManualReset(b, reset_uuid) ==
    /\ budget.reset > 0
    /\ budget' = [budget EXCEPT !.reset = @ - 1]
    /\ IF TokenMatches(ksFile[b], reset_uuid)
       THEN /\ ksFile' = [ksFile EXCEPT ![b] =
                  [exists |-> TRUE, active |-> FALSE, reset_uuid |-> FreshUuid(1)]]
            /\ uuidCtr' = uuidCtr + 1
            /\ kill_switch_breach_start' =
                   [kill_switch_breach_start EXCEPT ![b] = BreachStartAfterReset(@)]
            /\ trueSince' = [trueSince EXCEPT ![b] = None]
            /\ obsSince' = [obsSince EXCEPT ![b] = None]
       ELSE UNCHANGED <<ksFile, uuidCtr, kill_switch_breach_start, trueSince, obsSince>>
    /\ UNCHANGED <<accountFile, settings, latest_prices, last_price_update_dt,
                   kill_switch_equity_open, quote, down, clock, today, wh, risk, acked, ver,
                   dayFirst>>
    /\ UNCHANGED lk

\* local midnight passes
Midnight ==
    /\ today < MaxDay
    /\ today' = today + 1
    /\ UNCHANGED <<accountFile, ksFile, settings, latest_prices, last_price_update_dt,
                   kill_switch_equity_open, kill_switch_breach_start, quote, down, clock, uuidCtr,
                   wh, risk, acked, ver, dayFirst, trueSince, obsSince, budget>>
    /\ UNCHANGED lk

\* the process is started again: the module-level state of lines 32-35 and
\* 148-150 is new, the files stay
Restart ==
    /\ budget.restart > 0
    /\ budget' = [budget EXCEPT !.restart = @ - 1]
    /\ latest_prices' = NoPrices
    /\ last_price_update_dt' = clock
    /\ kill_switch_equity_open' = [b \in Bots |-> NoEquityOpen]
    /\ kill_switch_breach_start' = [b \in Bots |-> None]
    /\ wh' = [t \in Threads |-> IdleThread]
    /\ risk' = SleepingRisk
    /\ dayFirst' = [b \in Bots |-> NoDayFirst]
    /\ trueSince' = [b \in Bots |-> None]
    /\ obsSince' = [b \in Bots |-> None]
    /\ UNCHANGED <<accountFile, ksFile, settings, quote, down, clock, today, uuidCtr, acked, ver>>
    /\ UNCHANGED lk

\* the exchange trades the symbol at another price
MarketMove(s, p) ==
    /\ budget.market > 0
    /\ quote[s] # p
    /\ budget' = [budget EXCEPT !.market = @ - 1]
    /\ quote' = [quote EXCEPT ![s] = p]
    /\ UNCHANGED <<accountFile, ksFile, settings, latest_prices, last_price_update_dt,
                   kill_switch_equity_open, kill_switch_breach_start, down, clock, today,
                   uuidCtr, wh, risk, acked, ver, dayFirst, trueSince, obsSince>>
    /\ UNCHANGED lk

\* ticker requests for the symbols of D start to fail, all others to succeed
Outage(D) ==
    /\ budget.market > 0
    /\ down # D
    /\ budget' = [budget EXCEPT !.market = @ - 1]
    /\ down' = D
    /\ UNCHANGED <<accountFile, ksFile, settings, latest_prices, last_price_update_dt,
                   kill_switch_equity_open, kill_switch_breach_start, quote, clock,
                   today, uuidCtr, wh, risk, acked, ver, dayFirst, trueSince, obsSince>>
    /\ UNCHANGED lk

(***************************************************************************)
(* failures of the file system, and the settings page                      *)
(***************************************************************************)
\* Lines 265-269 in the webhook: save_account takes file_lock and opens
\* data_file with "w", which empties it; or open() raises, save_account
\* raises again and lines 1019-1021 answer "Internal server error".
\* before is history: the account stored when the save began.
SaveOpen(t, fails) ==
    /\ wh[t].pc = "save"
    /\ FileLockFree(wh)
    /\ LET w == wh[t]
           before == LoadAccount(accountFile[w.bot])
       IN IF fails
          THEN /\ budget.fault > 0
               /\ budget' = [budget EXCEPT !.fault = @ - 1]
               /\ wh' = [wh EXCEPT ![t] = [w EXCEPT !.pc = "done",
                                                    !.resp = "internal_error",
                                                    !.account = DefaultAccount,
                                                    !.before = before]]
               /\ UNCHANGED accountFile
          ELSE /\ wh' = [wh EXCEPT ![t] = [w EXCEPT !.pc = "write", !.before = before]]
               /\ accountFile' = [accountFile EXCEPT ![w.bot] = Truncated]
               /\ UNCHANGED budget
    /\ UNCHANGED <<ksFile, settings, latest_prices, last_price_update_dt,
                   kill_switch_equity_open, kill_switch_breach_start, quote, down, clock, today,
                   uuidCtr, risk, acked, ver, dayFirst, trueSince, obsSince>>
    /\ UNCHANGED lk

\* Lines 269-273 in the webhook: json.dump writes the account and file_lock is
\* released; or the write raises, the file stays as open() left it and lines
\* 1019-1021 answer "Internal server error".
SaveWrite(t, fails) ==
    /\ wh[t].pc = "write"
    /\ LET w == wh[t]
       IN IF fails
          THEN /\ budget.fault > 0
               /\ budget' = [budget EXCEPT !.fault = @ - 1]
               /\ wh' = [wh EXCEPT ![t] = [w EXCEPT !.pc = "done",
                                                    !.resp = "internal_error",
                                                    !.account = DefaultAccount]]
               /\ UNCHANGED <<accountFile, ver, acked>>
          ELSE /\ accountFile' = [accountFile EXCEPT ![w.bot] = w.account]
               /\ ver' = [ver EXCEPT ![w.bot] = @ + 1]
               /\ acked' = [acked EXCEPT ![w.bot] =
                               Append(@, w.account.trade_log[Len(w.account.trade_log)])]
               /\ wh' = [wh EXCEPT ![t] = [w EXCEPT !.pc = "done", !.resp = "success",
                                                    !.account = DefaultAccount]]
               /\ UNCHANGED budget
    /\ UNCHANGED <<ksFile, settings, latest_prices, last_price_update_dt,
                   kill_switch_equity_open, kill_switch_breach_start, quote, down, clock, today,
                   uuidCtr, risk, dayFirst, trueSince, obsSince>>
    /\ UNCHANGED lk

\* a risk loop that an exception ends
AfterExceptionDead(r) == [SleepingRisk EXCEPT !.pc = "dead"]

\* Lines 1151-1154: "except Exception" logs the error and the loop goes on
\* to time.sleep(5); the locals of the pass are gone
AfterException(r) == SleepingRisk

\* Lines 1146-1154: save_account raises in the pass, at open() with the file
\* as it was (outcome "open") or in json.dump with the file emptied (outcome
\* "write"); the exception leaves the "for bot_id in BOTS" loop.
RiskSaveFails(outcome) ==
    /\ risk.pc = "scan"
    /\ budget.fault > 0
    /\ FileLockFree(wh)
    /\ LET b == BotOrder[risk.idx]
           scan == ScanAll(risk.account, latest_prices)
       IN /\ risk.modified \/ scan.modified
          /\ accountFile' = [accountFile EXCEPT ![b] =
                                IF outcome = "open" THEN @ ELSE Truncated]
    /\ budget' = [budget EXCEPT !.fault = @ - 1]
    /\ risk' = AfterException(risk)
    /\ UNCHANGED <<ksFile, settings, latest_prices, last_price_update_dt,
                   kill_switch_equity_open, kill_switch_breach_start, quote, down, clock, today,
                   uuidCtr, wh, acked, ver, dayFirst, trueSince, obsSince>>
    /\ UNCHANGED lk

\* Lines 790-797: the ranges the settings page accepts
ValidSettings(st) ==
    /\ 1 <= st.leverage /\ st.leverage <= 20
    /\ 1 <= st.stop_loss_pct /\ st.stop_loss_pct <= 200
    /\ 1 <= st.take_profit_pct /\ st.take_profit_pct <= 500
    /\ 1 <= st.kill_switch_pct /\ st.kill_switch_pct <= 500

\* settings(), POST: lines 783-807
SaveSettings(b, st) ==
    /\ budget.conf > 0
    /\ budget' = [budget EXCEPT !.conf = @ - 1]
    /\ settings' = IF ValidSettings(st) THEN [settings EXCEPT ![b] = st] ELSE settings
    /\ UNCHANGED <<accountFile, ksFile, latest_prices, last_price_update_dt,
                   kill_switch_equity_open, kill_switch_breach_start, quote, down, clock, today,
                   uuidCtr, wh, risk, acked, ver, dayFirst, trueSince, obsSince>>
    /\ UNCHANGED lk

(***************************************************************************)
(* The legacy webhook kept in src/backup.py (lines 256-378)                *)
(***************************************************************************)
\* leverage = 5
LegacyLeverage == 5

\* new_position of lines 311-317
LegacyPosition(price, margin_used) ==
    [volume |-> OpenVolume(margin_used, LegacyLeverage, price),
     entry_price |-> price,
     margin_used |-> margin_used,
     leverage |-> LegacyLeverage]

\* Lines 300-308: the rejections of a buy
LegacyBuyError(account, symbol, price) ==
    IF OpenVolume(MarginUsed(account), LegacyLeverage, price) <= 0 THEN "invalid_volume"
    ELSE IF account.balance < MarginUsed(account) THEN "insufficient_balance"
    ELSE IF Len(PositionsOf(account, symbol)) >= 5 THEN "position_limit"
    ELSE "ok"

\* Lines 310-331: the account a buy hands to save_account
LegacyBuy(account, symbol, price) ==
    LET margin_used == MarginUsed(account)
        pos == LegacyPosition(price, margin_used)
        balance == account.balance - margin_used
        a1 == SetPositions(account, symbol, Append(PositionsOf(account, symbol), pos))
    IN [a1 EXCEPT !.balance = balance,
                  !.trade_log = Append(@, [action |-> "buy", symbol |-> symbol,
                                           reason |-> "TradingView signal",
                                           price |-> price, amount |-> pos.volume,
                                           balance |-> Round2(balance),
                                           leverage |-> LegacyLeverage])]

\* Line 345: profit = (price - avg_entry) * total_volume * leverage, with
\* (price - avg_entry) * total_volume = sum((price - entry) * volume)
LegacyProfit(price, plist) ==
    SumSeq(Map(LAMBDA p : PositionProfit("long", p.entry_price, price, p.volume), plist))
    * LegacyLeverage

\* Lines 334-336: the rejection of a sell
LegacySellError(account, symbol) ==
    IF PositionsOf(account, symbol) = <<>> THEN "no_positions" ELSE "ok"

\* Lines 338-364: the account a sell hands to save_account
LegacySell(account, symbol, price) ==
    LET plist == PositionsOf(account, symbol)
        profit == LegacyProfit(price, plist)
        balance == account.balance + TotalMargin(plist) + profit
        a1 == SetPositions(account, symbol, <<>>)
    IN [a1 EXCEPT !.balance = balance,
                  !.trade_log = Append(@, [action |-> "sell", symbol |-> symbol,
                                           reason |-> "TradingView signal",
                                           price |-> price, amount |-> TotalVolume(plist),
                                           profit |-> Round2(profit),
                                           balance |-> Round2(balance),
                                           leverage |-> LegacyLeverage])]

\* webhook() of the legacy application: the price comes with the request;
\* load_account, the branch of the action and save_account.
LegacyWebhook(t, b, action, symbol, price) ==
    /\ wh[t].pc \in {"idle", "done"}
    /\ budget.req > 0
    /\ budget' = [budget EXCEPT !.req = @ - 1]
    /\ LET account == LoadAccount(accountFile[b])
           err == IF action = "buy" THEN LegacyBuyError(account, symbol, price)
                  ELSE LegacySellError(account, symbol)
           saved == IF action = "buy" THEN LegacyBuy(account, symbol, price)
                    ELSE LegacySell(account, symbol, price)
           req == [IdleThread EXCEPT !.pc = "done", !.bot = b, !.action = action,
                                     !.symbol = symbol, !.price = price]
       IN IF err # "ok"
          THEN /\ wh' = [wh EXCEPT ![t] = [req EXCEPT !.resp = err]]
               /\ UNCHANGED <<accountFile, ver, acked>>
          ELSE /\ wh' = [wh EXCEPT ![t] = [req EXCEPT !.resp = "success"]]
               /\ accountFile' = [accountFile EXCEPT ![b] = saved]
               /\ ver' = [ver EXCEPT ![b] = @ + 1]
               /\ acked' = [acked EXCEPT ![b] =
                               Append(@, saved.trade_log[Len(saved.trade_log)])]
    /\ UNCHANGED <<ksFile, settings, latest_prices, last_price_update_dt,
                   kill_switch_equity_open, kill_switch_breach_start, quote, down, clock, today,
                   uuidCtr, risk, dayFirst, trueSince, obsSince>>
    /\ UNCHANGED lk

(***************************************************************************)
(* Threads at the locks                                                    *)
(***************************************************************************)
\* the locks thread t holds, in the order it acquired them
HeldLocks(t) == [i \in DOMAIN lk[t].held |-> lk[t].held[i].lock]

\* some thread holds the lock
LockTaken(lock) ==
    \E t \in LockThreads : \E i \in DOMAIN lk[t].held : lk[t].held[i].lock = lock

\* thread t is at the acquire of a lock that some thread holds
Waits(t) ==
    /\ lk[t].ops # <<>>
    /\ Head(lk[t].ops).op = "acquire"
    /\ LockTaken(Head(lk[t].ops).lock)

\* thread t, holding no lock, enters one of its lock regions
Call(t, ops) ==
    /\ lk[t] = NoLocks
    /\ ops # <<>>
    /\ lk' = [lk EXCEPT ![t].ops = ops]
    /\ UNCHANGED vars0

\* thread t runs its next acquire, which waits while any thread holds the
\* lock, or its next release
LockStep(t) ==
    /\ lk[t].ops # <<>>
    /\ ~Waits(t)
    /\ LET o == Head(lk[t].ops)
       IN lk' = [lk EXCEPT ![t] =
                    [ops |-> Tail(lk[t].ops),
                     held |-> IF o.op = "acquire"
                              THEN Append(lk[t].held, [lock |-> o.lock, bot |-> o.bot])
                              ELSE SelectSeq(lk[t].held, LAMBDA h : h.lock # o.lock)]]
    /\ UNCHANGED vars0

(***************************************************************************)
(* Specifications.  Each explores the operations of one part of the        *)
(* program within a budget of requests, ticks and changes of the exchange. *)
(***************************************************************************)
\* The risk loop with one stream of signals, the dashboard, the manual reset
\* and the calendar.
RiskReq == 2
RiskTicks == 2
RiskMarket == 1
RiskDash == 1
RiskReset == 1

Init ==
    InitWith([req |-> RiskReq, ticks |-> RiskTicks, dash |-> RiskDash, restart |-> 0,
              reset |-> RiskReset, market |-> RiskMarket], KillPctSet)

Next ==
    \/ \E a \in Actions : WebhookCheck(1, "1.0", a, "BTCUSDT")
    \/ WebhookLoad(1)
    \/ WebhookSave(1)
    \/ \E gap \in TickGaps : TickStart(gap)
    \/ DailyReset
    \/ RiskFetch
    \/ RiskLoad
    \/ RiskKill
    \/ RiskScan
    \/ Dashboard
    \/ \E b \in Bots, u \in 0..uuidCtr : ManualReset(b, u)
    \/ \E p \in PriceSet : MarketMove("BTCUSDT", p)

Spec == Init /\ [][Next]_vars

\* The risk loop alone with one signal, over three passes.
DebounceReq == 1
DebounceTicks == 3
DebounceMarket == 1

InitDebounce ==
    InitWith([req |-> DebounceReq, ticks |-> DebounceTicks, dash |-> 0, restart |-> 0,
              reset |-> 0, market |-> DebounceMarket], KillPctSet)

NextDebounce ==
    \/ \E a \in {"buy", "short"} : WebhookCheck(1, "1.0", a, "BTCUSDT")
    \/ WebhookLoad(1)
    \/ WebhookSave(1)
    \/ \E gap \in TickGaps : TickStart(gap)
    \/ DailyReset
    \/ RiskFetch
    \/ RiskLoad
    \/ RiskKill
    \/ RiskScan
    \/ \E p \in PriceSet : MarketMove("BTCUSDT", p)
    \/ Midnight

SpecDebounce == InitDebounce /\ [][NextDebounce]_vars

\* Webhook requests handled at the same time, with the dashboard's price fetch.
LedgerReq == 3
LedgerMarket == 1
LedgerDash == 1

InitLedger ==
    InitWith([req |-> LedgerReq, ticks |-> 0, dash |-> LedgerDash, restart |-> 0,
              reset |-> 0, market |-> LedgerMarket], {DefaultSettings.kill_switch_pct})

NextLedger ==
    \/ \E t \in Threads, a \in Actions : WebhookCheck(t, "1.0", a, "BTCUSDT")
    \/ \E t \in Threads : WebhookLoad(t)
    \/ \E t \in Threads : WebhookSave(t)
    \/ Dashboard
    \/ \E p \in PriceSet : MarketMove("BTCUSDT", p)

SpecLedger == InitLedger /\ [][NextLedger]_vars

\* The risk loop after a restart of the process, with ticker requests that fail.
OutageReq == 2
OutageTicks == 2
OutageMarket == 2
OutageDash == 1
OutageRestart == 1

InitOutage ==
    InitWith([req |-> OutageReq, ticks |-> OutageTicks, dash |-> OutageDash,
              restart |-> OutageRestart, reset |-> 0, market |-> OutageMarket],
             {DefaultSettings.kill_switch_pct})

NextOutage ==
    \/ \E a \in {"buy", "short"}, s \in Symbols : WebhookCheck(1, "1.0", a, s)
    \/ WebhookLoad(1)
    \/ WebhookSave(1)
    \/ \E gap \in {300} : TickStart(gap)
    \/ DailyReset
    \/ RiskFetch
    \/ RiskLoad
    \/ RiskKill
    \/ RiskScan
    \/ Dashboard
    \/ Restart
    \/ \E D \in SUBSET Symbols : Outage(D)

SpecOutage == InitOutage /\ [][NextOutage]_vars

\* One request after the other over both symbols, with the dashboard's
\* price fetch.
BookReq == 4
BookMarket == 1
BookDash == 1

InitBook ==
    InitWith([req |-> BookReq, ticks |-> 0, dash |-> BookDash, restart |-> 0,
              reset |-> 0, market |-> BookMarket], {DefaultSettings.kill_switch_pct})

NextBook ==
    \/ \E a \in Actions, s \in Symbols : WebhookCheck(1, "1.0", a, s)
    \/ WebhookLoad(1)
    \/ WebhookSave(1)
    \/ Dashboard
    \/ \E s \in Symbols, p \in PriceSet : MarketMove(s, p)

SpecBook == InitBook /\ [][NextBook]_vars

\* Buy requests for one symbol, handled at the same time, up to the limit
\* of open positions and beyond.
CapReq == 6

InitCap ==
    InitWith([req |-> CapReq, ticks |-> 0, dash |-> 0, restart |-> 0,
              reset |-> 0, market |-> 0], {DefaultSettings.kill_switch_pct})

NextCap ==
    \/ \E t \in Threads : WebhookCheck(t, "1.0", "buy", "BTCUSDT")
    \/ \E t \in Threads : WebhookLoad(t)
    \/ \E t \in Threads : WebhookSave(t)

SpecCap == InitCap /\ [][NextCap]_vars

\* Shorts at the highest leverage the settings page accepts, covered after
\* the price has nearly doubled, one request after the other.
DrainReq == 7
DrainMarket == 6
DrainDash == 6
DrainLeverage == 20
DrainPrices == {StartPrice, 1997}

InitDrain ==
    InitSettings([req |-> DrainReq, ticks |-> 0, dash |-> DrainDash, restart |-> 0,
                  reset |-> 0, market |-> DrainMarket],
                 {[DefaultSettings EXCEPT !.leverage = DrainLeverage]})

\* the strategy that sends the signals: a short while the account is flat
\* (and its balance within the range of the model's integers), a cover
\* while it holds a position
DrainSignals ==
    IF \A s \in DOMAIN accountFile["1.0"].positions :
          accountFile["1.0"].positions[s] = <<>>
    THEN (IF accountFile["1.0"].balance <= STARTING_BALANCE THEN {"short"} ELSE {})
    ELSE {"cover"}

NextDrain ==
    \/ \E a \in DrainSignals : WebhookCheck(1, "1.0", a, "BTCUSDT")
    \/ WebhookLoad(1)
    \/ WebhookSave(1)
    \/ Dashboard
    \/ \E p \in DrainPrices : MarketMove("BTCUSDT", p)

SpecDrain == InitDrain /\ [][NextDrain]_vars

\* The risk loop with passes far enough apart for the prices to go stale.
StaleReq == 1
StaleTicks == 2
StaleMarket == 2
StaleDash == 1
StaleGaps == {KILL_SWITCH_DELAY, MAX_STALE_PRICE + 1}

InitStale ==
    InitWith([req |-> StaleReq, ticks |-> StaleTicks, dash |-> StaleDash, restart |-> 0,
              reset |-> 0, market |-> StaleMarket], KillPctSet)

NextStale ==
    \/ \E a \in {"buy", "short"} : WebhookCheck(1, "1.0", a, "BTCUSDT")
    \/ WebhookLoad(1)
    \/ WebhookSave(1)
    \/ \E gap \in StaleGaps : TickStart(gap)
    \/ DailyReset
    \/ RiskFetch
    \/ RiskLoad
    \/ RiskKill
    \/ RiskScan
    \/ Dashboard
    \/ \E p \in PriceSet : MarketMove("BTCUSDT", p)
    \/ \E D \in SUBSET {"BTCUSDT"} : Outage(D)

SpecStale == InitStale /\ [][NextStale]_vars

\* A losing day: one bot buys, its kill switch fires, and then midnight, a
\* restart of the process or a manual reset follows.
TripReq == 2
TripTicks == 3
TripMarket == 1
TripDash == 2
TripReset == 1
TripRestart == 1
TripKillPcts == {1}
TripGaps == {KILL_SWITCH_DELAY}
TripPrices == {974}

InitTrip ==
    InitWith([req |-> TripReq, ticks |-> TripTicks, dash |-> TripDash,
              restart |-> TripRestart, reset |-> TripReset, market |-> TripMarket],
             TripKillPcts)

NextTrip ==
    \/ WebhookCheck(1, "1.0", "buy", "BTCUSDT")
    \/ WebhookLoad(1)
    \/ WebhookSave(1)
    \/ \E gap \in TripGaps : TickStart(gap)
    \/ DailyReset
    \/ RiskFetch
    \/ RiskLoad
    \/ RiskKill
    \/ RiskScan
    \/ Dashboard
    \/ \E u \in 0..uuidCtr : ManualReset("1.0", u)
    \/ \E p \in TripPrices : MarketMove("BTCUSDT", p)
    \/ Midnight
    \/ Restart

SpecTrip == InitTrip /\ [][NextTrip]_vars

\* The kill switch fires, is reset by hand or by the calendar and fires again.  Reset requests
\* are made while the kill switch is active and carry a token the program
\* issued at some time.
ReplayReq == 1
ReplayTicks == 4
ReplayMarket == 1
ReplayDash == 1
ReplayReset == 2

InitReplay ==
    InitWith([req |-> ReplayReq, ticks |-> ReplayTicks, dash |-> ReplayDash,
              restart |-> 0, reset |-> ReplayReset, market |-> ReplayMarket],
             TripKillPcts)

NextReplay ==
    \/ WebhookCheck(1, "1.0", "buy", "BTCUSDT")
    \/ WebhookLoad(1)
    \/ WebhookSave(1)
    \/ \E gap \in TripGaps : TickStart(gap)
    \/ DailyReset
    \/ RiskFetch
    \/ RiskLoad
    \/ RiskKill
    \/ RiskScan
    \/ Dashboard
    \/ \E u \in 1..uuidCtr : ksFile["1.0"].active /\ ManualReset("1.0", u)
    \/ \E p \in TripPrices : MarketMove("BTCUSDT", p)
    \/ Midnight

SpecReplay == InitReplay /\ [][NextReplay]_vars

\* The risk loop over two accounts with a file system that fails once: both
\* bots buy, the price falls through the stop-loss prices, and a save_account
\* of the pass raises.
FaultReq == 2
FaultTicks == 2
FaultMarket == 1
FaultFaults == 1

InitFault ==
    InitWith([req |-> FaultReq, ticks |-> FaultTicks, dash |-> 0, restart |-> 0,
              reset |-> 0, market |-> FaultMarket, fault |-> FaultFaults],
             {DefaultSettings.kill_switch_pct})

NextFault ==
    \/ \E b \in Bots : WebhookCheck(1, b, "buy", "BTCUSDT")
    \/ WebhookLoad(1)
    \/ WebhookSave(1)
    \/ \E gap \in TripGaps : TickStart(gap)
    \/ DailyReset
    \/ RiskFetch
    \/ RiskLoad
    \/ RiskKill
    \/ RiskScan
    \/ \E outcome \in {"open", "write"} : RiskSaveFails(outcome)
    \/ \E p \in TripPrices : MarketMove("BTCUSDT", p)

SpecFault == InitFault /\ [][NextFault]_vars

\* Two webhook threads on one account, with save_account in its two steps
\* (open, json.dump) and a file system that fails once.
FileReq == 3
FileFaults == 1

InitFile ==
    InitWith([req |-> FileReq, ticks |-> 0, dash |-> 0, restart |-> 0, reset |-> 0,
              market |-> 0, fault |-> FileFaults],
             {DefaultSettings.kill_switch_pct})

NextFile ==
    \/ \E t \in Threads, a \in {"buy", "sell"} : WebhookCheck(t, "1.0", a, "BTCUSDT")
    \/ \E t \in Threads : WebhookLoad(t)
    \/ \E t \in Threads, fails \in BOOLEAN : SaveOpen(t, fails)
    \/ \E t \in Threads, fails \in BOOLEAN : SaveWrite(t, fails)

SpecFile == InitFile /\ [][NextFile]_vars

\* One stream of opens while the operator changes the settings of the bot,
\* the price moves and the risk loop scans.
TuneReq == 2
TuneTicks == 1
TuneMarket == 1
TuneConf == 1
\* what the operator submits: wider stops, and a leverage the page refuses
TuneSettings ==
    {[DefaultSettings EXCEPT !.stop_loss_pct = 50, !.take_profit_pct = 60],
     [DefaultSettings EXCEPT !.leverage = 21]}

InitTune ==
    InitWith([req |-> TuneReq, ticks |-> TuneTicks, dash |-> 0, restart |-> 0,
              reset |-> 0, market |-> TuneMarket, conf |-> TuneConf],
             {DefaultSettings.kill_switch_pct})

NextTune ==
    \/ \E a \in {"buy", "short"} : WebhookCheck(1, "1.0", a, "BTCUSDT")
    \/ WebhookLoad(1)
    \/ WebhookSave(1)
    \/ \E gap \in TripGaps : TickStart(gap)
    \/ DailyReset
    \/ RiskFetch
    \/ RiskLoad
    \/ RiskKill
    \/ RiskScan
    \/ \E p \in PriceSet : MarketMove("BTCUSDT", p)
    \/ \E st \in TuneSettings : SaveSettings("1.0", st)

SpecTune == InitTune /\ [][NextTune]_vars

\* A breach that a stale pass interrupts: the ticker requests start to fail
\* while the breach timer of bot 1.0 runs and succeed again later.
LapseReq == 1
LapseTicks == 4
LapseMarket == 3
LapseDash == 1
LapseGaps == {KILL_SWITCH_DELAY, MAX_STALE_PRICE + 1}

InitLapse ==
    InitWith([req |-> LapseReq, ticks |-> LapseTicks, dash |-> LapseDash, restart |-> 0,
              reset |-> 0, market |-> LapseMarket], TripKillPcts)

NextLapse ==
    \/ WebhookCheck(1, "1.0", "buy", "BTCUSDT")
    \/ WebhookLoad(1)
    \/ WebhookSave(1)
    \/ \E gap \in LapseGaps : TickStart(gap)
    \/ DailyReset
    \/ RiskFetch
    \/ RiskLoad
    \/ RiskKill
    \/ RiskScan
    \/ Dashboard
    \/ \E p \in TripPrices : MarketMove("BTCUSDT", p)
    \/ kill_switch_breach_start["1.0"] # None /\ Outage({"BTCUSDT"})
    \/ Outage({})

SpecLapse == InitLapse /\ [][NextLapse]_vars

\* The legacy webhook of src/backup.py: buys and sells at the prices the
\* requests carry.
LegacyReq == 3

InitLegacy ==
    InitWith([req |-> LegacyReq, ticks |-> 0, dash |-> 0, restart |-> 0, reset |-> 0,
              market |-> 0], {DefaultSettings.kill_switch_pct})

NextLegacy ==
    \E b \in Bots, action \in {"buy", "sell"}, p \in PriceSet :
        LegacyWebhook(1, b, action, "BTCUSDT", p)

SpecLegacy == InitLegacy /\ [][NextLegacy]_vars

\* The threads of src/main.py at their locks: two server threads that handle
\* webhook, dashboard, reset and settings requests for any bot, and the risk
\* loop.
InitLocks ==
    InitWith([req |-> 0, ticks |-> 0, dash |-> 0, restart |-> 0, reset |-> 0,
              market |-> 0], {DefaultSettings.kill_switch_pct})

NextLocks ==
    \/ \E t \in {"web1", "web2"}, b \in Bots :
          \E ops \in WebhookLocks(b) \cup DashboardLocks(b) \cup ResetLocks(b)
                     \cup SettingsLocks(b) : Call(t, ops)
    \/ \E b \in Bots : \E ops \in RiskLocks(b) : Call("loop", ops)
    \/ \E t \in LockThreads : LockStep(t)

SpecLocks == InitLocks /\ [][NextLocks]_vars

\* The threads of the later application of src/backup.py at
\* live_trading_lock: two server threads that handle webhook requests and
\* the thread of monitor_live_balance.
InitLive ==
    InitWith([req |-> 0, ticks |-> 0, dash |-> 0, restart |-> 0, reset |-> 0,
              market |-> 0], {DefaultSettings.kill_switch_pct})

NextLive ==
    \/ \E t \in {"web1", "web2"}, b \in Bots :
          \E ops \in LiveWebhookLocks(b) : Call(t, ops)
    \/ \E ops \in MonitorLocks : Call("loop", ops)
    \/ \E t \in LockThreads : LockStep(t)

SpecLive == InitLive /\ [][NextLive]_vars

(***************************************************************************)
(* Properties of the ledger under concurrent webhook requests (SpecLedger) *)
(***************************************************************************)
\* C1: operations on one account take effect as in some serial order, so no
\* acknowledged operation's change is lost: the persisted trade log holds
\* exactly the records of the operations that were acknowledged.
C1_NoLostUpdate ==
    \A b \in Bots :
        /\ Len(accountFile[b].trade_log) = Len(acked[b])
        /\ \A i \in DOMAIN acked[b] :
              \E j \in DOMAIN accountFile[b].trade_log :
                  accountFile[b].trade_log[j] = acked[b][i]

\* two requests that closed the same side of the same symbol from the same
\* version of the account file, both answered with success
DoubleClose(t1, t2) ==
    /\ t1 # t2
    /\ wh[t1].pc = "done" /\ wh[t2].pc = "done"
    /\ wh[t1].resp = "success" /\ wh[t2].resp = "success"
    /\ wh[t1].action \in {"sell", "cover"}
    /\ wh[t1].action = wh[t2].action
    /\ wh[t1].bot = wh[t2].bot
    /\ wh[t1].symbol = wh[t2].symbol
    /\ wh[t1].ver = wh[t2].ver

\* C2: of the concurrent sell (cover) requests for one open position exactly
\* one succeeds, the others find nothing to close; the balance is credited
\* once and is never negative.
C2_OneCloseSucceeds ==
    /\ \A b \in Bots : accountFile[b].balance >= 0
    /\ \A t1, t2 \in Threads : ~DoubleClose(t1, t2)

\* the positions a sell or cover of thread t closes in the account file
ClosedBy(t) == Matching(accountFile[wh[t].bot], wh[t].action, wh[t].symbol)

\* sum of (exit - entry) * volume, signed by the side, in price-scaled money
RawProfit(type, exit, plist) ==
    SumSeq(Map(LAMBDA p : IF type = "long" THEN (exit - p.entry_price) * p.volume
                          ELSE (p.entry_price - exit) * p.volume,
               plist))

\* thread t works out a close on the account it loads in this step
CloseComputed(t) ==
    /\ wh[t].pc = "load"
    /\ wh'[t].pc = "save"
    /\ wh[t].action \in {"sell", "cover"}

\* C10: a sell or cover closes all matching positions at the signal's price
\* with profit = (exit - avgEntry) * totalVolume (inverted for a cover), the
\* average entry volume-weighted and no leverage applied again, and the
\* balance grows by exactly totalMargin + profit; 1000 at 5 % margin and 5x
\* leverage bought at 100 and sold at 120 gives profit 50 and balance 1050.
C10_CloseProfit ==
    [][\A t \in Threads :
          CloseComputed(t) =>
            LET before == accountFile[wh[t].bot]
                after == wh'[t].account
                plist == ClosedBy(t)
                rec == after.trade_log[Len(after.trade_log)]
                raw == RawProfit(ClosedType(wh[t].action), wh[t].price, plist)
                err == rec.profit * PriceScale - raw
            IN /\ rec.price = wh[t].price
               /\ rec.amount = TotalVolume(plist)
               /\ err <= Len(plist) * PriceScale
               /\ -err <= Len(plist) * PriceScale
               /\ after.balance = before.balance + TotalMargin(plist) + rec.profit
               /\ PositionsOf(after, wh[t].symbol) =
                     SelectSeq(PositionsOf(before, wh[t].symbol),
                               LAMBDA p : p.type # ClosedType(wh[t].action))
               /\ (/\ before.balance = 950 * MoneyScale
                   /\ Len(plist) = 1
                   /\ plist[1].entry_price = 100 * PriceScale
                   /\ plist[1].leverage = 5
                   /\ wh[t].action = "sell"
                   /\ wh[t].price = 120 * PriceScale)
                  => (rec.profit = 50 * MoneyScale /\ after.balance = 1050 * MoneyScale)]_vars

\* the example of C10 has been saved: bought at 100, sold at 120
C10_Witness ==
    \E b \in Bots :
        /\ Len(accountFile[b].trade_log) = 2
        /\ accountFile[b].trade_log[1].action = "buy"
        /\ accountFile[b].trade_log[1].price = 100 * PriceScale
        /\ accountFile[b].trade_log[2].action = "sell"
        /\ accountFile[b].trade_log[2].price = 120 * PriceScale
        /\ accountFile[b].trade_log[2].profit = 50 * MoneyScale
        /\ accountFile[b].balance = 1050 * MoneyScale

(***************************************************************************)
(* Properties of the kill switch                                           *)
(***************************************************************************)
\* the risk loop has just evaluated the kill switch of bot b
Evaluated(b) == risk.pc = "scan" /\ BotOrder[risk.idx] = b

\* C3: when the drawdown against the equity of the day's first risk pass has
\* been at or above kill_switch_pct, with fresh prices, at every pass for at
\* least KILL_SWITCH_DELAY seconds, the risk loop liquidates and sets the
\* kill switch active.
C3_SustainedBreachFires ==
    \A b \in Bots :
        (/\ Evaluated(b)
         /\ trueSince[b] # None
         /\ risk.now - Val(trueSince[b]) >= KILL_SWITCH_DELAY)
        => ksFile[b].active

\* the step activates the kill switch of bot b
Fires(b) == ~ksFile[b].active /\ ksFile'[b].active

\* the step is the kill-switch block of the risk loop for bot b
KillStep(b) == risk.pc = "kill" /\ risk'.pc = "scan" /\ BotOrder[risk.idx] = b

\* C4: the kill switch fires only at a pass that sees the breach and whose
\* run of breaching passes began at least KILL_SWITCH_DELAY seconds earlier;
\* a pass that sees no breach clears the timer and liquidates nothing.
C4_FireOnlyAfterDebounce ==
    [][\A b \in Bots :
          /\ Fires(b) => /\ KillStep(b)
                         /\ obsSince'[b] # None
                         /\ risk.now - Val(obsSince'[b]) >= KILL_SWITCH_DELAY
          /\ (KillStep(b) /\ obsSince'[b] = None)
                => /\ kill_switch_breach_start'[b] = None
                   /\ ksFile' = ksFile
                   /\ accountFile' = accountFile]_vars

\* the kill switch has fired after a run of breaching passes
C4_Witness ==
    \E b \in Bots :
        /\ ksFile[b].active
        /\ obsSince[b] # None
        /\ risk.now - Val(obsSince[b]) >= KILL_SWITCH_DELAY

\* no position is left in the account
AllClosed(account) == \A s \in DOMAIN account.positions : account.positions[s] = <<>>

\* C5: the kill switch becomes active only when the liquidation has closed
\* every open position of the account; a position that could not be closed
\* leaves the switch inactive.
C5_ActiveOnlyWhenAllClosed ==
    \A b \in Bots :
        (Evaluated(b) /\ risk.modified /\ ksFile[b].active) => AllClosed(risk.account)

\* C6: while the kill switch of an account is active, a buy or short signal
\* for it is refused with the halted error and balance, positions and trade
\* log stay as they are.
C6_HaltedWhileActive ==
    [][\A t \in Threads :
          (/\ wh'[t] # wh[t]
           /\ wh'[t].ks
           /\ wh'[t].action \in {"buy", "short"})
          => /\ wh'[t].pc = "done"
             /\ wh'[t].resp = "halted"
             /\ accountFile' = accountFile]_vars

\* a buy or short has been refused because the kill switch was active
C6_Witness ==
    \E t \in Threads :
        /\ wh[t].resp = "halted"
        /\ wh[t].action \in {"buy", "short"}
        /\ ksFile[wh[t].bot].active

\* C7: the first risk pass of a day records its equity as the day's starting
\* equity, and every later pass of the day measures the drawdown against
\* that recorded value.
C7_StartingEquityRecorded ==
    \A b \in Bots :
        (Evaluated(b) /\ dayFirst[b].day = risk.day)
        => /\ kill_switch_equity_open[b].open = Some(dayFirst[b].equity)
           /\ StartingEquity(kill_switch_equity_open[b].open, risk.equity) =
                 dayFirst[b].equity

(***************************************************************************)
(* Properties of the stop-loss / take-profit scan                          *)
(***************************************************************************)
\* the stop-loss and take-profit conditions as the specification words them
StopCrossed(p, c) ==
    IF p.type = "long" THEN c <= p.stop_loss_price ELSE c >= p.stop_loss_price

TargetCrossed(p, c) ==
    IF p.type = "long" THEN c >= p.take_profit_price ELSE c <= p.take_profit_price

Crossed(p, c) == StopCrossed(p, c) \/ TargetCrossed(p, c)

Threshold(p, c) == IF StopCrossed(p, c) THEN p.stop_loss_price ELSE p.take_profit_price

\* the positions of symbol s the scan of the loaded account has to close
Hits(account, s) ==
    IF latest_prices[s] > 0
    THEN SelectSeq(account.positions[s], LAMBDA p : Crossed(p, latest_prices[s]))
    ELSE <<>>

\* the positions of symbol s the scan has to leave open
Kept(account, s) ==
    IF latest_prices[s] > 0
    THEN SelectSeq(account.positions[s], LAMBDA p : ~Crossed(p, latest_prices[s]))
    ELSE account.positions[s]

AnyHit(account) == \E s \in DOMAIN account.positions : Hits(account, s) # <<>>

\* the step is the scan of the risk loop for bot b
ScanStep(b) == risk.pc = "scan" /\ risk'.pc # "scan" /\ BotOrder[risk.idx] = b

\* the records the step appended to the loaded trade log, for symbol s
NewRecords(b, s) ==
    SelectSeq(SubSeq(accountFile'[b].trade_log, Len(risk.account.trade_log) + 1,
                     Len(accountFile'[b].trade_log)),
              LAMBDA r : r.symbol = s)

\* record r closes position p at its crossed threshold
ClosesAtThreshold(r, p, c) ==
    LET exit == Threshold(p, c)
        raw == IF p.type = "long" THEN (exit - p.entry_price) * p.volume
               ELSE (p.entry_price - exit) * p.volume
        err == r.profit * PriceScale - raw
    IN /\ r.price = exit
       /\ r.amount = p.volume
       /\ r.action = (IF p.type = "long" THEN "sell" ELSE "cover")
       /\ r.reason = (IF StopCrossed(p, c) THEN "Stop Loss" ELSE "Take Profit")
       /\ err <= PriceScale /\ -err <= PriceScale

\* C8: the scan closes a long when price <= stop-loss price or price >=
\* take-profit price and a short when price >= stop-loss price or price <=
\* take-profit price, at the threshold price that was crossed (the stop loss
\* first), with profit (threshold - entry) * volume for a long and
\* (entry - threshold) * volume for a short, added with the margin to the
\* balance.
C8_ThresholdExit ==
    [][\A b \in Bots :
          ScanStep(b) =>
            LET pre == risk.account
                post == accountFile'[b]
                symsq == KeysInOrder(pre)
                margins == SumSeq([k \in DOMAIN symsq |-> TotalMargin(Hits(pre, symsq[k]))])
                profits == SumSeq([k \in DOMAIN symsq |->
                              SumSeq(Map(LAMBDA r : r.profit, NewRecords(b, symsq[k])))])
            IN IF AnyHit(pre)
               THEN /\ \A s \in DOMAIN pre.positions :
                         /\ Len(NewRecords(b, s)) = Len(Hits(pre, s))
                         /\ \A i \in DOMAIN Hits(pre, s) :
                               ClosesAtThreshold(NewRecords(b, s)[i], Hits(pre, s)[i],
                                                 latest_prices[s])
                    /\ post.balance = pre.balance + margins + profits
               ELSE post \in {accountFile[b], pre}]_vars

\* a long has been stopped out at its stop-loss price with the market below it
C8_Witness ==
    \E b \in Bots : \E i \in DOMAIN accountFile[b].trade_log :
        LET r == accountFile[b].trade_log[i]
        IN /\ r.reason = "Stop Loss"
           /\ r.action = "sell"
           /\ r.price > latest_prices[r.symbol]
           /\ latest_prices[r.symbol] > 0

\* C9: the scan removes exactly the positions whose own threshold was
\* crossed; every other position of the symbol stays open as it was.
C9_OnlyCrossedRemoved ==
    [][\A b \in Bots :
          ScanStep(b) =>
            LET pre == risk.account
                post == accountFile'[b]
            IN IF AnyHit(pre)
               THEN /\ DOMAIN post.positions = DOMAIN pre.positions
                    /\ \A s \in DOMAIN pre.positions : post.positions[s] = Kept(pre, s)
               ELSE post.positions \in {accountFile[b].positions, pre.positions}]_vars

\* a position was closed by the scan while another of the same symbol stays
C9_Witness ==
    \E b \in Bots :
        LET log == accountFile[b].trade_log
        IN /\ log # <<>>
           /\ log[Len(log)].reason \in {"Stop Loss", "Take Profit"}
           /\ log[Len(log)].symbol \in DOMAIN accountFile[b].positions
           /\ accountFile[b].positions[log[Len(log)].symbol] # <<>>

(***************************************************************************)
(* Properties of single webhook requests (SpecBook, SpecCap, SpecDrain)    *)
(***************************************************************************)
\* thread t works out an open on the account it loads in this step
OpenComputed(t) ==
    /\ wh[t].pc = "load"
    /\ wh'[t].pc = "save"
    /\ wh[t].action \in {"buy", "short"}

\* C11: a successful buy or short lowers the balance by exactly marginUsed =
\* balance * marginFraction, appends exactly one position to
\* positions[symbol] and appends exactly one trade record without a profit.
C11_OpenEffect ==
    [][\A t \in Threads :
          OpenComputed(t) =>
            LET before == accountFile[wh[t].bot]
                after == wh'[t].account
                sym == wh[t].symbol
                paid == before.balance - after.balance
                err == (MarginPctDen \div MarginPctNum) * paid - before.balance
                n == Len(PositionsOf(before, sym))
                rec == after.trade_log[Len(after.trade_log)]
            IN /\ err <= (MarginPctDen \div MarginPctNum) \div 2
               /\ -err <= (MarginPctDen \div MarginPctNum) \div 2
               /\ Len(PositionsOf(after, sym)) = n + 1
               /\ SubSeq(PositionsOf(after, sym), 1, n) = PositionsOf(before, sym)
               /\ PositionsOf(after, sym)[n + 1].margin_used = paid
               /\ PositionsOf(after, sym)[n + 1].entry_price = wh[t].price
               /\ \A s \in Symbols \ {sym} : PositionsOf(after, s) = PositionsOf(before, s)
               /\ Len(after.trade_log) = Len(before.trade_log) + 1
               /\ SubSeq(after.trade_log, 1, Len(before.trade_log)) = before.trade_log
               /\ rec.action = wh[t].action
               /\ rec.symbol = sym
               /\ "profit" \notin DOMAIN rec]_vars

\* a buy on the fresh account has been saved: margin 50 paid, one position
C11_Witness ==
    \E b \in Bots :
        /\ accountFile[b].balance = STARTING_BALANCE - 50 * MoneyScale
        /\ Len(accountFile[b].trade_log) = 1
        /\ accountFile[b].trade_log[1].action = "buy"
        /\ Len(PositionsOf(accountFile[b], "BTCUSDT")) = 1
        /\ PositionsOf(accountFile[b], "BTCUSDT")[1].margin_used = 50 * MoneyScale

\* the side a sell or a cover closes, as the specification words it
SideOf(action) == IF action = "sell" THEN "long" ELSE "short"

\* C12: a successful sell (cover) removes all long (short) positions of the
\* symbol as one batch, appends exactly one trade record for the batch and
\* leaves the positions of the opposite side and of other symbols unchanged.
C12_BatchClose ==
    [][\A t \in Threads :
          CloseComputed(t) =>
            LET before == accountFile[wh[t].bot]
                after == wh'[t].account
                sym == wh[t].symbol
                side == SideOf(wh[t].action)
                batch == SelectSeq(PositionsOf(before, sym), LAMBDA p : p.type = side)
                rec == after.trade_log[Len(after.trade_log)]
            IN /\ batch # <<>>
               /\ \A i \in DOMAIN PositionsOf(after, sym) :
                     PositionsOf(after, sym)[i].type # side
               /\ PositionsOf(after, sym) =
                     SelectSeq(PositionsOf(before, sym), LAMBDA p : p.type # side)
               /\ \A s \in Symbols \ {sym} : PositionsOf(after, s) = PositionsOf(before, s)
               /\ Len(after.trade_log) = Len(before.trade_log) + 1
               /\ SubSeq(after.trade_log, 1, Len(before.trade_log)) = before.trade_log
               /\ rec.action = wh[t].action
               /\ rec.symbol = sym
               /\ rec.amount = SumSeq([i \in DOMAIN batch |-> batch[i].volume])]_vars

\* a sell has been saved that left a short on its symbol and a position on
\* another symbol
C12_Witness ==
    \E b \in Bots :
        LET log == accountFile[b].trade_log
        IN /\ log # <<>>
           /\ log[Len(log)].action = "sell"
           /\ log[Len(log)].reason = "TradingView signal"
           /\ \E i \in DOMAIN PositionsOf(accountFile[b], log[Len(log)].symbol) :
                 PositionsOf(accountFile[b], log[Len(log)].symbol)[i].type = "short"
           /\ \E s \in Symbols \ {log[Len(log)].symbol} : PositionsOf(accountFile[b], s) # <<>>

\* C16: a sell with no long position of the symbol, or a cover with no
\* short one, is rejected with the no-positions error and leaves balance,
\* positions and trade log as they are.
C16_NothingToClose ==
    [][\A t \in Threads :
          (/\ wh[t].pc = "load"
           /\ wh'[t].pc # "load"
           /\ wh[t].action \in {"sell", "cover"}
           /\ \A i \in DOMAIN PositionsOf(accountFile[wh[t].bot], wh[t].symbol) :
                 PositionsOf(accountFile[wh[t].bot], wh[t].symbol)[i].type #
                    SideOf(wh[t].action))
          => /\ wh'[t].pc = "done"
             /\ wh'[t].resp = "no_positions"
             /\ accountFile' = accountFile]_vars

\* a sell was rejected while the symbol held only a short position
C16_Witness ==
    \E t \in Threads :
        /\ wh[t].pc = "done"
        /\ wh[t].resp = "no_positions"
        /\ wh[t].action = "sell"
        /\ PositionsOf(accountFile[wh[t].bot], wh[t].symbol) # <<>>

\* records i and i + 1 of the log are an open and the close of just that
\* position at the same price
RoundTrip(log, i) ==
    /\ i + 1 \in DOMAIN log
    /\ log[i].action \in {"buy", "short"}
    /\ log[i + 1].action = (IF log[i].action = "buy" THEN "sell" ELSE "cover")
    /\ log[i + 1].reason = "TradingView signal"
    /\ log[i + 1].symbol = log[i].symbol
    /\ log[i + 1].price = log[i].price
    /\ log[i + 1].amount = log[i].amount

\* the balance before record i of the log was written
BalanceBefore(log, i) == IF i = 1 THEN STARTING_BALANCE ELSE log[i - 1].balance

\* C17: opening a position and closing it at the same price with nothing in
\* between yields profit 0 and the balance of before the open, up to the
\* rounding of the recorded balances.
C17_RoundTrip ==
    \A b \in Bots : \A i \in DOMAIN accountFile[b].trade_log :
        LET log == accountFile[b].trade_log
            err == log[i + 1].balance - BalanceBefore(log, i)
        IN RoundTrip(log, i)
           => /\ log[i + 1].profit = 0
              /\ err <= MoneyScale \div 200
              /\ -err <= MoneyScale \div 200

\* a position was opened and closed at once at the same price after other
\* trades
C17_Witness ==
    \E b \in Bots : \E i \in DOMAIN accountFile[b].trade_log :
        /\ i > 1
        /\ RoundTrip(accountFile[b].trade_log, i)
        /\ Len(accountFile[b].trade_log) = i + 1
        /\ accountFile[b].balance = accountFile[b].trade_log[i + 1].balance

C14_OpenRejections ==
    [][\A t \in Threads :
          LET before == accountFile[wh[t].bot]
              margin == MarginUsed(before)
              volume == OpenVolume(margin, settings[wh[t].bot].leverage, wh[t].price)
          IN (/\ wh[t].pc = "load"
              /\ wh'[t].pc # "load"
              /\ wh[t].action \in {"buy", "short"}
              /\ (margin <= 0 \/ before.balance < margin \/ volume <= 0))
             => /\ wh'[t].pc = "done"
                /\ wh'[t].resp # "success"
                /\ accountFile' = accountFile]_vars

\* C15: every position in an account's positions lists has volume > 0.
C15_VolumePositive ==
    \A b \in Bots : \A s \in Symbols :
        \A i \in DOMAIN PositionsOf(accountFile[b], s) :
            PositionsOf(accountFile[b], s)[i].volume > 0

(***************************************************************************)
(* Properties of the equity and of passes with stale or missing prices     *)
(***************************************************************************)
\* margin plus unrealized profit of one position, the profit counted as 0
\* when the symbol has no quote
MarginAndPnl(p, price) ==
    p.margin_used + (IF price > 0 THEN PositionProfit(p.type, p.entry_price, price, p.volume)
                     ELSE 0)

\* balance + sum of margins + sum of unrealized profits
QuotedEquity(account, prices) ==
    LET symsq == KeysInOrder(account)
    IN account.balance
       + SumSeq([k \in DOMAIN symsq |->
                   SumSeq([i \in DOMAIN account.positions[symsq[k]] |->
                             MarginAndPnl(account.positions[symsq[k]][i], prices[symsq[k]])])])

\* C18: the equity the risk loop uses is balance + sum of marginUsed + sum of
\* unrealized PnL over the open positions, where a position whose symbol has
\* no quote contributes its margin and 0 PnL.
C18_EquityFormula ==
    (risk.pc = "kill") => (risk.equity = QuotedEquity(risk.account, risk.prices))

\* the prices the pass works with are older than MAX_STALE_PRICE
StalePass == risk.now - last_price_update_dt > MAX_STALE_PRICE

\* C19: at a pass whose last successful price fetch is more than 600 s old
\* the kill switch is not evaluated and does not fire, while the scan still
\* closes the positions whose thresholds the last-known prices cross.
C19_StaleSuspendsKillSwitch ==
    [][\A b \in Bots :
          /\ (KillStep(b) /\ StalePass)
                => /\ ksFile' = ksFile
                   /\ kill_switch_breach_start'[b] = None
                   /\ accountFile' = accountFile
          /\ (ScanStep(b) /\ StalePass /\ AnyHit(risk.account))
                => /\ Len(accountFile'[b].trade_log) > Len(risk.account.trade_log)
                   /\ \A s \in DOMAIN risk.account.positions :
                         accountFile'[b].positions[s] = Kept(risk.account, s)]_vars

\* a stale pass has left the kill switch alone and its scan has a position
\* to close at the last-known price
C19_Witness ==
    \E b \in Bots :
        /\ Evaluated(b)
        /\ StalePass
        /\ ~ksFile[b].active
        /\ kill_switch_breach_start[b] = None
        /\ AnyHit(risk.account)

\* C20: the scan skips a position whose symbol has no price (missing or
\* <= 0): it stays open and unchanged, no trade record is written for it and
\* the pass goes on.
C20_UnpricedSkipped ==
    [][\A b \in Bots :
          ScanStep(b) =>
            /\ risk'.pc \in {"load", "sleep"}
            /\ \A s \in DOMAIN risk.account.positions :
                  latest_prices[s] <= 0
                  => \/ accountFile'[b] = accountFile[b]
                     \/ /\ accountFile'[b].positions[s] = risk.account.positions[s]
                        /\ NewRecords(b, s) = <<>>]_vars

\* a pass has saved the account with a position left open on a symbol that
\* has no price
C20_Witness ==
    \E b \in Bots : \E s \in Symbols :
        LET log == accountFile[b].trade_log
        IN /\ risk.pc = "sleep"
           /\ latest_prices[s] = 0
           /\ PositionsOf(accountFile[b], s) # <<>>
           /\ log # <<>>
           /\ log[Len(log)].reason = "Kill Switch Triggered"

(***************************************************************************)
(* Properties of the kill switch's reset (SpecTrip)                        *)
(***************************************************************************)
\* reset_kill_switch_daily runs in the step
ResetStep == risk.pc = "reset" /\ risk'.pc = "fetch"

\* the risk loop last evaluated the bot on an earlier calendar day
EvaluatedBefore(b) == dayFirst[b].day # -1 /\ dayFirst[b].day < today

\* C21: on the first risk tick of a new calendar day, an account whose kill
\* switch was active has it cleared: a pass that starts its daily reset on a
\* day after the bot's last evaluation leaves no active kill switch.
C21_RolloverClears ==
    [][\A b \in Bots :
          (ResetStep /\ ksFile[b].active /\ EvaluatedBefore(b))
              => ~ksFile'[b].active]_vars

\* C22: a manual reset presented with the account's current reset token
\* clears the kill switch and replaces the token with one never issued
\* before; a reset presented with any other token changes nothing in the
\* kill-switch state of any account.
C22_ManualReset ==
    [][\A b \in Bots, u \in 0..uuidCtr :
          ManualReset(b, u) =>
             IF ksFile[b].exists /\ ksFile[b].reset_uuid = u
             THEN /\ ~ksFile'[b].active
                  /\ ksFile'[b].reset_uuid \notin 0..uuidCtr
                  /\ \A c \in Bots \ {b} : ksFile'[c] = ksFile[c]
             ELSE /\ ksFile' = ksFile
                  /\ kill_switch_breach_start' = kill_switch_breach_start]_vars

\* the kill switch of bot 1.0 fired and a manual reset, not the calendar or
\* a restart, cleared it
C22_Witness ==
    /\ ksFile["1.0"].exists
    /\ ~ksFile["1.0"].active
    /\ today = 0
    /\ budget.restart = TripRestart
    /\ budget.reset < TripReset

\* C23: a reset token is single-use: every step that changes an account's
\* kill-switch state (a successful manual reset, a fire, a daily reset)
\* gives it a token never issued before, and a reset request that carries
\* any token but the current one leaves an active kill switch active.
C23_TokenSingleUse ==
    [][\A b \in Bots :
          /\ ksFile'[b] # ksFile[b] =>
                /\ ksFile'[b].reset_uuid \notin 0..uuidCtr
                /\ ksFile'[b].reset_uuid <= uuidCtr'
          /\ \A u \in 0..uuidCtr :
                (ManualReset(b, u) /\ ksFile[b].active /\ u # ksFile[b].reset_uuid)
                    => ksFile'[b] = ksFile[b]]_vars

\* the kill switch fired (token 1), was reset with that token (token 2) and
\* fired again (token 3); the second reset request carried token 1 or 2 and
\* the kill switch is still active
C23_Witness ==
    /\ ksFile["1.0"].active
    /\ ksFile["1.0"].reset_uuid = 3
    /\ budget.reset = ReplayReset - 2
    /\ today = 0

\* the state of the account's kill switch in the spec's state machine
Phase(ks, breach_start) ==
    IF ks.active THEN "Tripped"
    ELSE IF breach_start # None THEN "Breaching"
    ELSE "Normal"

\* C24: while the process runs, the kill-switch state of an account moves
\* only along Normal -> Breaching -> Tripped -> Normal and Breaching ->
\* Normal: Tripped is entered only from Breaching, by a pass whose clock is
\* at least KILL_SWITCH_DELAY past the start of the breach, and Tripped is
\* left only to Normal, by a manual reset or by the daily reset of a pass
\* on a later calendar day than the bot's last evaluation.
C24_KillSwitchPhases ==
    [][\A b \in Bots :
          LET p == Phase(ksFile[b], kill_switch_breach_start[b])
              q == Phase(ksFile'[b], kill_switch_breach_start'[b])
          IN /\ (p = "Normal" => q \in {"Normal", "Breaching"})
             /\ (p = "Breaching" /\ q = "Tripped") =>
                   /\ KillStep(b)
                   /\ risk.now - Val(kill_switch_breach_start[b]) >= KILL_SWITCH_DELAY
             /\ (p = "Tripped" => q \in {"Tripped", "Normal"})
             /\ (p = "Tripped" /\ q = "Normal") =>
                   \/ \E u \in 0..uuidCtr : ManualReset(b, u)
                   \/ ResetStep /\ EvaluatedBefore(b)]_vars

\* the kill switch of bot 1.0 fired, was cleared, and a later pass found the
\* drawdown again: the account is Breaching for the second time
C24_Witness ==
    /\ ksFile["1.0"].exists
    /\ Phase(ksFile["1.0"], kill_switch_breach_start["1.0"]) = "Breaching"

(***************************************************************************)
(* Properties of failing saves and of the data files (SpecFault, SpecFile) *)
(***************************************************************************)
\* C25: a failure while one account is evaluated does not keep the remaining
\* accounts from being evaluated in the same tick: a pass ends only after
\* the last account of BOTS has had its turn.
C25_FailureIsolated ==
    [][(risk.pc # "sleep" /\ risk'.pc = "sleep") => risk.idx = Len(BotOrder)]_vars

\* the step is an exception raised inside a pass of the risk loop
RaisesInPass == budget'.fault < budget.fault /\ risk.pc # "sleep"

\* C26: the risk loop never terminates: it is always asleep between two
\* passes or at a step of a pass, an exception raised inside a pass sends it
\* to the sleep that ends every pass, and a sleeping loop can always begin
\* another pass (here: while the explored number of passes lasts).
C26_LoopGoesOn ==
    /\ [](risk.pc \in {"sleep", "reset", "fetch", "load", "kill", "scan"})
    /\ []((risk.pc = "sleep" /\ budget.ticks > 0)
             => ENABLED (\E gap \in TripGaps : TickStart(gap)))
    /\ [][RaisesInPass => risk'.pc = "sleep"]_vars

\* a save of the first pass raised, and the loop is in its next pass
C26_Witness ==
    /\ budget.fault < FaultFaults
    /\ risk.pc = "scan"

\* the request of thread t ends in the step with an error
FailsIn(t) ==
    /\ wh[t].pc \in {"load", "save", "write"}
    /\ wh'[t].pc = "done"
    /\ wh'[t].resp # "success"

\* the account that was stored before the attempt of thread t
StoredBefore(t) ==
    IF wh[t].pc = "write" THEN wh[t].before
    ELSE LoadAccount(accountFile[wh[t].bot])

\* C27: a webhook open or close that fails, a failing save_account included,
\* leaves the balance, positions and trade log that load_account finds for
\* the account as they were before the attempt.
C27_FailedLeavesState ==
    [][\A t \in Threads :
          FailsIn(t) => LoadAccount(accountFile'[wh[t].bot]) = StoredBefore(t)]_vars

\* load_account of thread t runs in the step
LoadStep(t) == wh[t].pc = "load" /\ wh'[t].pc # "load"

\* C28: a load_account never runs between the open and the end of the
\* json.dump of a save_account: it reads the account file as the last
\* finished save left it, before or after the concurrent save, and a file
\* it finds emptied is one a failed save left behind.
C28_LoadSeesSnapshot ==
    [][\A t \in Threads :
          LoadStep(t) =>
             /\ \A t2 \in Threads : wh[t2].pc # "write"
             /\ "truncated" \in DOMAIN accountFile[wh[t].bot] => budget.fault < FileFaults
             /\ wh'[t].pc = "save" =>
                   wh'[t].account =
                      SignalEffect(LoadAccount(accountFile[wh[t].bot]), wh[t].action,
                                   wh[t].symbol, wh[t].price, wh[t].st)]_vars

\* thread 1 is inside save_account, the file emptied, while thread 2 is
\* about to call load_account
C28_Witness ==
    /\ wh[1].pc = "write"
    /\ wh[2].pc = "load"
    /\ "truncated" \in DOMAIN accountFile["1.0"]

\* sequence s is a prefix of sequence l
IsPrefix(s, l) == Len(s) <= Len(l) /\ SubSeq(l, 1, Len(s)) = s

\* C29: the trade log is append-only: each step leaves every account a
\* persisted trade log of which the log persisted before is a prefix.
C29_LogAppendOnly ==
    [][\A b \in Bots :
          IsPrefix(LoadAccount(accountFile[b]).trade_log,
                   LoadAccount(accountFile'[b]).trade_log)]_vars

(***************************************************************************)
(* Properties of the positions' thresholds (SpecTune)                      *)
(***************************************************************************)
\* the positions load_account finds in the file
Stored(file) ==
    LET positions == LoadAccount(file).positions
    IN UNION {{positions[s][i] : i \in DOMAIN positions[s]} : s \in DOMAIN positions}

\* price is entry * (1 + sign * pct / 100), to the nearest price step
AtPct(price, entry, sign, pct) ==
    LET d == price * PctScale - entry * (PctScale + sign * pct)
    IN -PctScale <= 2 * d /\ 2 * d <= PctScale

\* the position's thresholds are those of its entry price and percentages
StopsOfEntry(p) ==
    LET sign == IF p.type = "long" THEN 1 ELSE -1
    IN /\ AtPct(p.stop_loss_price, p.entry_price, -sign, p.stop_loss_pct)
       /\ AtPct(p.take_profit_price, p.entry_price, sign, p.take_profit_pct)

\* the positions of the program: those stored in a data file and those of
\* the accounts a webhook thread or the risk loop loaded and works on
Known ==
    UNION ({Stored(accountFile[b]) : b \in Bots}
           \cup {Stored(wh[t].account) : t \in Threads}
           \cup {Stored(risk.account)})

\* in the step the open branch of thread t builds position p, with the
\* price and the settings the thread read
OpenedBy(t, p) ==
    /\ wh[t].pc = "load" /\ wh'[t].pc = "save"
    /\ wh[t].action \in {"buy", "short"}
    /\ p.entry_price = wh[t].price
    /\ p.stop_loss_pct = wh[t].st.stop_loss_pct
    /\ p.take_profit_pct = wh[t].st.take_profit_pct

\* C30: the stop-loss and take-profit prices of a position are fixed when it
\* is opened, at entry * (1 -/+ pct / 100) for a long and the signs inverted
\* for a short, and no later step changes them: every position after a
\* step, stored or loaded, is a position from before the step, thresholds
\* and all, or the one an open has just built.
C30_StopsFixed ==
    [][\A p \in Known' :
          \/ p \in Known
          \/ StopsOfEntry(p) /\ \E t \in Threads : OpenedBy(t, p)]_vars

\* after a change of the settings and of the price, a pass of the risk loop
\* has left a position that carries the old percentages next to one opened
\* with the new ones
C30_Witness ==
    /\ risk.pc = "sleep"
    /\ budget.ticks < TuneTicks
    /\ quote["BTCUSDT"] # StartPrice
    /\ \E p, q \in Stored(accountFile["1.0"]) :
          /\ p.stop_loss_pct = DefaultSettings.stop_loss_pct
          /\ q.stop_loss_pct = settings["1.0"].stop_loss_pct
          /\ q.stop_loss_pct # p.stop_loss_pct
          /\ StopsOfEntry(p) /\ StopsOfEntry(q)

(***************************************************************************)
(* The webhook's kill-switch check against the firing of the risk loop     *)
(***************************************************************************)
\* the step is the save_account of an open signal of thread t
OpenSaveStep(t) ==
    wh[t].pc = "save" /\ wh'[t].pc = "done" /\ wh[t].action \in {"buy", "short"}

\* C33: the kill-switch check of a webhook open and its save_account are
\* atomic with respect to the firing: an open whose check passed before the
\* kill switch fired does not save its account, with the new position and
\* the positions it loaded, once the kill switch is active.
C33_CheckSaveAtomic ==
    [][\A t \in Threads :
          OpenSaveStep(t) => ~ksFile[wh[t].bot].active]_vars

(***************************************************************************)
(* The account of a bot whose kill switch is active                        *)
(***************************************************************************)
\* C35: while the kill switch of an account is active, no step of the risk
\* loop and no webhook signal changes the balance, the positions or the
\* trade log that load_account finds for the account.
C35_FrozenWhileActive ==
    [][\A b \in Bots :
          (ksFile[b].active /\ ksFile'[b].active)
              => LoadAccount(accountFile'[b]) = LoadAccount(accountFile[b])]_vars

(***************************************************************************)
(* The kill switch after a manual reset (SpecReplay)                       *)
(***************************************************************************)
\* the pass at the kill-switch block of bot b has fresh prices and finds the
\* equity at or beyond the drawdown threshold of the stored opening equity
BreachSeen(b) ==
    /\ ~StalePass
    /\ kill_switch_equity_open[b].date = risk.day
    /\ LossBreached(StartingEquity(kill_switch_equity_open[b].open, risk.equity),
                    risk.equity, settings[b].kill_switch_pct)

\* C36: a manual reset leaves the stored opening equity as it was and clears
\* the breach timer; a later fresh pass of the same day that still finds the
\* breach starts the timer again without firing, and a pass that finds the
\* breach with a timer at least KILL_SWITCH_DELAY seconds old sets the kill
\* switch active again.
C36_ResetKeepsStartingEquity ==
    [][\A b \in Bots :
          /\ (\E u \in 0..uuidCtr : ManualReset(b, u) /\ TokenMatches(ksFile[b], u))
                => /\ kill_switch_equity_open' = kill_switch_equity_open
                   /\ kill_switch_breach_start'[b] = None
          /\ (KillStep(b) /\ BreachSeen(b))
                => IF kill_switch_breach_start[b] = None
                   THEN /\ kill_switch_breach_start'[b] = Some(risk.now)
                        /\ ~ksFile'[b].active
                   ELSE risk.now - Val(kill_switch_breach_start[b]) >= KILL_SWITCH_DELAY
                           => ksFile'[b].active]_vars

\* the kill switch of bot 1.0 fired, was reset by hand and fired again on
\* the same day
C36_Witness ==
    /\ ksFile["1.0"].active
    /\ ksFile["1.0"].reset_uuid = 3
    /\ budget.reset = ReplayReset - 1
    /\ budget.ticks = 0
    /\ today = 0

(***************************************************************************)
(* The kill switch across a restart of the process (SpecTrip)              *)
(***************************************************************************)
\* C38: a start of the process leaves the in-memory day key of every account
\* empty, and the daily reset of a pass that finds the key of an account
\* empty clears a kill switch stored as active and gives it a token never
\* issued before, whatever the day the kill switch fired on.
C38_StartClearsKillSwitch ==
    [][/\ Restart => \A b \in Bots : kill_switch_equity_open'[b] = NoEquityOpen
       /\ \A b \in Bots :
             (ResetStep /\ kill_switch_equity_open[b] = NoEquityOpen /\ ksFile[b].active)
                 => /\ ~ksFile'[b].active
                    /\ ksFile'[b].reset_uuid \notin 0..uuidCtr]_vars

\* the kill switch of bot 1.0 fired on day 0, the process was started again
\* on day 0, and the first pass, not a manual reset, cleared the kill switch
C38_Witness ==
    /\ today = 0
    /\ budget.restart < TripRestart
    /\ budget.reset = TripReset
    /\ ksFile["1.0"].exists
    /\ ~ksFile["1.0"].active
    /\ ksFile["1.0"].reset_uuid > 1

(***************************************************************************)
(* The books of every stored account                                       *)
(***************************************************************************)
\* the margin the open positions of the account hold
OpenMargin(account) ==
    SumOverSymbols(LAMBDA p, s : p.margin_used, account, KeysInOrder(account))

\* the profits of the closing records of the account's trade log
LoggedProfit(account) ==
    SumSeq(Map(LAMBDA r : r.profit,
               SelectSeq(account.trade_log, LAMBDA r : "profit" \in DOMAIN r)))

\* C34: in every stored account, whatever the interleaving of webhook
\* requests and risk passes that wrote it, the balance plus the margin of the
\* open positions equals STARTING_BALANCE plus the profits of the closing
\* records of its trade log.
C34_SnapshotBalances ==
    \A b \in Bots :
        LET account == LoadAccount(accountFile[b])
        IN account.balance + OpenMargin(account)
              = STARTING_BALANCE + LoggedProfit(account)

\* a stored account holds an open position and the record of a close that
\* made a profit or a loss
C34_Witness ==
    \E b \in Bots :
        LET account == LoadAccount(accountFile[b])
        IN /\ OpenMargin(account) > 0
           /\ LoggedProfit(account) # 0

(***************************************************************************)
(* A breach interrupted by a pass with stale prices (SpecLapse)            *)
(***************************************************************************)
\* C37: a pass whose prices are stale clears the breach timer of the account
\* and does not fire; the kill switch fires only with a timer at least
\* KILL_SWITCH_DELAY seconds old that was started within the current run of
\* passes with fresh prices and a breach, so a breach that a stale pass
\* interrupted has to last KILL_SWITCH_DELAY seconds again.
C37_StaleRestartsDebounce ==
    [][\A b \in Bots :
          /\ (KillStep(b) /\ StalePass)
                => /\ kill_switch_breach_start'[b] = None
                   /\ ~Fires(b)
          /\ Fires(b)
                => /\ kill_switch_breach_start[b] # None
                   /\ obsSince[b] # None
                   /\ Val(obsSince[b]) <= Val(kill_switch_breach_start[b])
                   /\ risk.now - Val(kill_switch_breach_start[b]) >= KILL_SWITCH_DELAY]_vars

\* the kill switch of bot 1.0 fired on a timer started after a stale pass
\* had cleared the timer of an earlier breach
C37_Witness ==
    /\ ksFile["1.0"].active
    /\ kill_switch_breach_start["1.0"] = Some(2 * KILL_SWITCH_DELAY + MAX_STALE_PRICE + 1)
    /\ down = {}
    /\ budget.market = LapseMarket - 3

(***************************************************************************)
(* The legacy webhook of src/backup.py (SpecLegacy)                        *)
(***************************************************************************)
\* C32: a sell of the legacy webhook realizes and logs the profit
\* (price - avg_entry) * total_volume, the sum of (price - entry) * volume
\* over the positions it closes, without a factor for the leverage, and
\* credits the margins and that profit to the balance.
C32_LegacySellNeutral ==
    [][\A b \in Bots, p \in PriceSet :
          LegacyWebhook(1, b, "sell", "BTCUSDT", p) =>
             LET account == LoadAccount(accountFile[b])
                 plist == PositionsOf(account, "BTCUSDT")
                 log == accountFile'[b].trade_log
             IN plist # <<>> =>
                  /\ log[Len(log)].profit = Round2(CloseProfit("sell", p, plist))
                  /\ accountFile'[b].balance
                        = account.balance + TotalMargin(plist)
                          + CloseProfit("sell", p, plist)]_vars

(***************************************************************************)
(* Properties of the locks (SpecLocks, SpecLive)                           *)
(***************************************************************************)
\* the next operation of thread t acquires a lock that t holds itself
SelfWaits(t) ==
    /\ lk[t].ops # <<>>
    /\ Head(lk[t].ops).op = "acquire"
    /\ \E i \in DOMAIN lk[t].held : lk[t].held[i].lock = Head(lk[t].ops).lock

\* C31: operations on two different accounts never block each other: a
\* thread that waits for a lock works on the account on whose behalf the
\* lock is held.
C31_AccountsIndependent ==
    \A t, u \in LockThreads :
        \A i \in DOMAIN lk[u].held :
            (Waits(t) /\ lk[u].held[i].lock = Head(lk[t].ops).lock)
                => lk[u].held[i].bot = Head(lk[t].ops).bot

\* C39: in src/main.py a thread that holds both locks acquired
\* kill_switch_lock before file_lock, no thread asks for a lock it holds,
\* and whenever some thread is inside a lock region some thread can take
\* its next step: the threads never deadlock.
C39_LockOrder ==
    /\ \A t \in LockThreads :
          /\ HeldLocks(t) \in {<<>>, <<"kill_switch_lock">>, <<"file_lock">>,
                               <<"kill_switch_lock", "file_lock">>}
          /\ ~SelfWaits(t)
    /\ (\E t \in LockThreads : lk[t].ops # <<>>)
          => \E t \in LockThreads : lk[t].ops # <<>> /\ ~Waits(t)

\* one thread holds kill_switch_lock and file_lock while the two others
\* wait, one for each lock
C39_Witness ==
    \E t, u, v \in LockThreads :
        /\ HeldLocks(t) = <<"kill_switch_lock", "file_lock">>
        /\ Waits(u) /\ Head(lk[u].ops).lock = "kill_switch_lock"
        /\ Waits(v) /\ Head(lk[v].ops).lock = "file_lock"

\* C40: in src/backup.py the thread of monitor_live_balance never waits for
\* a lock it holds itself, so every iteration ends with live_trading_lock
\* released.
C40_MonitorReleases == ~SelfWaits("loop")

=============================================================================
